---- MODULE Spec2Model ----
(***************************************************************************)
(* Identity resolution and event delivery of the LiftPilot tracker         *)
(* (src/src/components/trackerCore.js, cookie.js, idGenerator.js and the   *)
(* fingerprint manager at the end of routeTracker.js).                     *)
(*                                                                         *)
(* JavaScript values are written as strings.  The values that are not      *)
(* JavaScript strings are written in angle brackets: "<null>",             *)
(* "<undefined>", "<true>", "<false>", "<0>", "<42>", "<promise>".         *)
(* Every async function is cut at its awaits: one action per stretch of    *)
(* code that runs without yielding.                                        *)
(***************************************************************************)
EXTENDS Naturals, Sequences, FiniteSets, TLC

VARIABLES
    BASE_URL,            \* trackerCore.js:29
    fingerprintEnabled,  \* trackerCore.js:31
    heartbeatInterval,   \* trackerCore.js:33 _heartbeatInterval: a timer handle or NoTimer
    timers,              \* the live setInterval timers of the page
    fpAgent,             \* routeTracker.js:111
    fpPromise,           \* routeTracker.js:112
    cookieCache,         \* cookie.js:7
    documentCookie,      \* document.cookie, by cookie name
    VISIT_ID,            \* window.VISIT_ID, idGenerator.js:22
    genCount,            \* how many ids generateId() has produced
    routeInitialized,    \* routeTracker.js:5 _initialized
    inits,               \* the init() calls, by slot
    calls,               \* the sendEvent/getEvents/getEvent/personalize calls, by slot
    lastEvent,           \* history: the call that settled in the last step, if one did
    initAccepted,        \* history: some init() call passed its options check
    firstResolution,     \* history: the id the first identity resolution gave, and how
    serverCid,           \* history: some response handled so far carried a cid
    build,               \* which tracker core the page loaded: trackerCore.js or unnamed/part_002
    now,                 \* Date.now()
    lastEventTimestamp,  \* trackerCore.js:32 _lastEventTimestamp
    lastHeartbeatTimestamp, \* part_002:32 _lastHeartbeatTimestamp
    isHeartbeatRunning,  \* part_002:34 _isHeartbeatRunning
    due,                 \* when each live timer fires next
    inflight,            \* the sendEvent calls under way, heartbeats and others
    hbInits,             \* the init() calls under way, by the await they are at
    tickEvent,           \* history: the timer callback that ran in the last step
    lastCompleted,       \* history: when a sendEvent call last completed successfully
    prevTick,            \* history: when a timer callback last ran
    dom,                 \* the elements of the document
    docLoading,          \* document.readyState === "loading"
    listeners,           \* the DOMContentLoaded listeners personalize() has added
    pz,                  \* the personalize() call under way, if any
    pzCalls,             \* how many personalize() calls got as far as their fetch
    pzEvent,             \* history: what personalize() or a listener did in the last step
    pl,                  \* the sendEvent calls under way with their data, and history: the payloads sent
    q,                   \* the getEvents or getEvent call under way, and history: how the last one went
    re,                  \* history: the init() calls that have returned, and whether one saw the fingerprint fail
    tr,                  \* the trackers' guards, the wrappers and listeners they have installed, and history: the last navigation
    ck,                  \* history: the value each cookie name was last given by setCookie, and the last getCookie call
    rt,                  \* the collector: the event value it has stored, and history: the data that was sent
    dt                   \* part_002:71-72 heartbeatStartTime and heartbeatCount of the timer held, and history: what its last callback sent

vars == <<BASE_URL, fingerprintEnabled, heartbeatInterval, timers, fpAgent,
          fpPromise, cookieCache, documentCookie, VISIT_ID,
          genCount, routeInitialized, inits, calls, lastEvent,
          initAccepted, firstResolution, serverCid,
          build, now, lastEventTimestamp, lastHeartbeatTimestamp,
          isHeartbeatRunning, due, inflight, hbInits, tickEvent,
          lastCompleted, prevTick,
          dom, docLoading, listeners, pz, pzCalls, pzEvent, pl, q, re, tr, dt, ck, rt>>

\* the clock and the heartbeat's state
hbVars == <<build, now, lastEventTimestamp, lastHeartbeatTimestamp,
            isHeartbeatRunning, due, inflight, hbInits, tickEvent,
            lastCompleted, prevTick>>

\* the document and the personalize() calls
pzVars == <<dom, docLoading, listeners, pz, pzCalls, pzEvent>>

\* the state of the queries and of the page's instrumentation
laterVars == <<q, re, tr, dt, ck, rt>>

\* the state the identity and delivery actions leave alone
sideVars == <<hbVars, pzVars, pl, laterVars>>

\* the state the end of sendEvent and of init() leave alone besides
quietVars == <<build, now, lastHeartbeatTimestamp, isHeartbeatRunning, due,
               inflight, hbInits, tickEvent, lastCompleted, prevTick,
               pzVars, pl, laterVars>>

identityVars == <<cookieCache, documentCookie, genCount>>

(***************************************************************************)
(* Bounds                                                                  *)
(***************************************************************************)
\* calls of the API operations that get as far as resolving the identity, per run
MaxCalls == 2
\* init() calls with usable options, per run
MaxInits == 1
\* ids generateId() hands out, per run
MaxGen == 3

\* the clock runs from 0 to MaxTime; one unit is 100 ms
MaxTime == 7
\* startPassiveHeartbeat's intervalMs, in units of 100 ms
IntervalMs == 3
\* sendEvent calls of one kind under way at a time, in the heartbeat's runs
MaxInFlight == 2
\* init() calls under way at a time, in the heartbeat's runs
MaxOverlap == 2
\* elements of the document
MaxElements == 2
\* personalize() calls that get as far as their fetch, per run
MaxPersonalize == 2
\* the payloads sent in a run
MaxPayloads == 3
\* the init() calls of a run that sends payloads
MaxPayloadInits == 2
\* the init() calls that return and are followed by another
MaxReturned == 2
MaxSetups == 3
MaxStamp == 2
MaxClock == 12
MaxBack == 1

CallSlots == 1..MaxCalls
InitSlots == 1..MaxInits

(***************************************************************************)
(* JavaScript values                                                       *)
(***************************************************************************)
Null == "<null>"
Undefined == "<undefined>"
TrueValue == "<true>"
FalseValue == "<false>"
ZeroValue == "<0>"
NumberValue == "<42>"
PromiseObject == "<promise>"
\* Map.prototype.has(name) is false
NotCached == "<not cached>"

\* the values an `if (v)` or `!v` takes as false
Falsy(v) == v \in {Null, Undefined, FalseValue, ZeroValue, ""}
Truthy(v) == ~Falsy(v)

TypeOf(v) ==
    CASE v = Undefined -> "undefined"
      [] v \in {Null, PromiseObject} -> "object"
      [] v \in {TrueValue, FalseValue} -> "boolean"
      [] v \in {ZeroValue, NumberValue} -> "number"
      [] OTHER -> "string"

\* what a template literal `${v}` turns v into
TemplateString(v) ==
    CASE v = PromiseObject -> "[object Promise]"
      [] v = Null -> "null"
      [] v = Undefined -> "undefined"
      [] OTHER -> v

(***************************************************************************)
(* Cookies: cookie.js                                                      *)
(***************************************************************************)
CID_COOKIE_NAME == "CID_COOKIE_NAME"
AID_COOKIE_NAME == "AID_COOKIE_NAME"
ENFORCE_IP_COOKIE_NAME == "ENFORCE_IP_COOKIE_NAME"
CookieNames == {CID_COOKIE_NAME, AID_COOKIE_NAME, ENFORCE_IP_COOKIE_NAME}

\* getCookie's result: the cached value when the name is cached (a cached
\* null included), else the value in document.cookie.  The values of this
\* model hold no character encodeURIComponent escapes, so the jar keeps them
\* as they are.

\* getCookie without its cache: document.cookie is read every time
GetCookieNoCache(cache, doc, name) == doc[name]

GetCookie(cache, doc, name) ==
    IF cache[name] # NotCached THEN cache[name] ELSE doc[name]

\* getCookie's effect on the cache: a miss stores what document.cookie held
CacheAfterGet(cache, doc, name) ==
    IF cache[name] # NotCached THEN cache
    ELSE [cache EXCEPT ![name] = doc[name]]

\* setCookie that leaves the cache as it was
SetCookieCacheStale(cache, name, value) == cache

\* setCookie on strings: the cache and document.cookie both take the value
SetCookieCache(cache, name, value) == [cache EXCEPT ![name] = value]
SetCookieDoc(doc, name, value) == [doc EXCEPT ![name] = value]

(***************************************************************************)
(* idGenerator.js                                                          *)
(***************************************************************************)
GenIds == <<"g1", "g2", "g3", "g4", "g5", "g6">>

\* generateId: the n-th call returns an id no earlier call returned
GenerateId(n) == GenIds[n + 1]

(***************************************************************************)
(* The collector's answers.  kind is "neterr" when fetch() rejects,        *)
(* "badjson" when the body does not parse, "nullbody" when it parses to    *)
(* null and "json" when it parses to an object; httpOk is response.ok.     *)
(* ok, cid and aid are the body's fields (for personalize, cid and aid are *)
(* those of body.data); Undefined stands for an absent field.  The wire    *)
(* protocol makes cid and aid strings.                                     *)
(***************************************************************************)
Response(kind, httpOk, ok, cid, aid) ==
    [kind |-> kind, httpOk |-> httpOk, ok |-> ok, cid |-> cid, aid |-> aid]

\* the bodies that parse to an object: {}, {ok: true}, {ok: false}, {ok: 0},
\* and bodies that name a cid, an aid or both, with and without ok
Bodies ==
    {<<Undefined, Undefined, Undefined>>, <<TrueValue, Undefined, Undefined>>,
     <<FalseValue, Undefined, Undefined>>, <<ZeroValue, Undefined, Undefined>>,
     <<TrueValue, "c1", Undefined>>, <<Undefined, "c2", "a1">>,
     <<TrueValue, Undefined, "a1">>, <<FalseValue, "c2", "a1">>}

Responses ==
    {Response("neterr", FALSE, Undefined, Undefined, Undefined)}
    \cup {Response(k, h, Undefined, Undefined, Undefined) :
              k \in {"badjson", "nullbody"}, h \in BOOLEAN}
    \cup {Response("json", h, b[1], b[2], b[3]) : h \in BOOLEAN, b \in Bodies}

NoResponse == Response("-", FALSE, Undefined, Undefined, Undefined)

(***************************************************************************)
(* The calls of sendEvent, getEvents, getEvent and personalize.  A call    *)
(* is at "await_uid" between its `await getUserId()` and the code after    *)
(* it, and at "fetch" while its request is with the collector.  cid, aid   *)
(* and ip are the call's locals userId, aid and enforcedIp; via tells how  *)
(* getUserId found the id; headers are the headers of its request.  A call *)
(* that settles is reported in lastEvent for one step.                   *)
(***************************************************************************)
ApiOps == {"sendEvent", "getEvents", "getEvent", "personalize"}

\* the event names callers pass: a usable one, the empty string, none, a number
EventNames == {"evt", "", Undefined, NumberValue}
\* the names getEvents is called with: a usable one, the empty string, none
QueryNames == {"evt", "", Undefined}

NoHeaders == [xcid |-> Undefined, xaid |-> Undefined, xip |-> Undefined]

IdleCall ==
    [op |-> "-", arg |-> "-", pc |-> "idle", cid |-> Undefined, via |-> "-",
     aid |-> Undefined, ip |-> Undefined, headers |-> NoHeaders]

DoneCall == [IdleCall EXCEPT !.pc = "done"]

\* the settling of a call: its operation and argument, whether it had sent
\* its request, the cid and aid it held, the response it got, its outcome
Settled(op, arg, requested, cid, aid, resp, result) ==
    [op |-> op, arg |-> arg, requested |-> requested, cid |-> cid, aid |-> aid,
     resp |-> resp, result |-> result]

NoEvent == Settled("-", "-", FALSE, Undefined, Undefined, NoResponse, "-")

(***************************************************************************)
(* Fingerprint manager: routeTracker.js:109-196                            *)
(***************************************************************************)
FpAgent == "agent"
\* the visitorId fpAgent.get() resolves to in this browser
VisitorId == "v1"

\* isAvailable()
IsAvailable(agent) == agent # Null

\* getVisitorId() is an async function: whatever it will resolve to, the
\* value its caller holds without an await is the promise
GetVisitorId(agent) == PromiseObject

(***************************************************************************)
(* getUserId: trackerCore.js:147-172.  It has no await, so a call runs to  *)
(* its end when it is made.  The result is the returned id, how it was     *)
(* found, and the cookie state the call leaves.                            *)
(***************************************************************************)
Resolution(ret, via, cache, doc, gen) ==
    [ret |-> ret, via |-> via, cache |-> cache, doc |-> doc, gen |-> gen]

\* getUserId with `cookieVal !== null` in place of `if (cookieVal)`
GetUserIdNullCheck(cache, doc, gen, fpOn, agent) ==
    LET cookieVal == GetCookie(cache, doc, CID_COOKIE_NAME)
        cache1 == CacheAfterGet(cache, doc, CID_COOKIE_NAME)
        fingerprintId == GetVisitorId(agent)
        fresh == GenerateId(gen)
    IN  IF cookieVal # Null
        THEN Resolution(cookieVal, "cookie", cache1, doc, gen)
        ELSE IF fpOn /\ IsAvailable(agent) /\ Truthy(fingerprintId)
        THEN Resolution("fp_" \o TemplateString(fingerprintId), "fingerprint",
                        cache1, doc, gen)
        ELSE Resolution(fresh, "generated",
                        SetCookieCache(cache1, CID_COOKIE_NAME, fresh),
                        SetCookieDoc(doc, CID_COOKIE_NAME, fresh), gen + 1)

\* getUserId with the fingerprint branch ahead of the cookie branch
GetUserIdFingerprintFirst(cache, doc, gen, fpOn, agent) ==
    LET cookieVal == GetCookie(cache, doc, CID_COOKIE_NAME)
        cache1 == CacheAfterGet(cache, doc, CID_COOKIE_NAME)
        fingerprintId == GetVisitorId(agent)
        fresh == GenerateId(gen)
    IN  IF fpOn /\ IsAvailable(agent) /\ Truthy(fingerprintId)
        THEN Resolution("fp_" \o TemplateString(fingerprintId), "fingerprint",
                        cache1, doc, gen)
        ELSE IF Truthy(cookieVal)
        THEN Resolution(cookieVal, "cookie", cache1, doc, gen)
        ELSE Resolution(fresh, "generated",
                        SetCookieCache(cache1, CID_COOKIE_NAME, fresh),
                        SetCookieDoc(doc, CID_COOKIE_NAME, fresh), gen + 1)

\* getUserId that returns the generated id and leaves the write of the
\* cookie for later
GetUserIdLateWrite(cache, doc, gen, fpOn, agent) ==
    LET cookieVal == GetCookie(cache, doc, CID_COOKIE_NAME)
        cache1 == CacheAfterGet(cache, doc, CID_COOKIE_NAME)
        fingerprintId == GetVisitorId(agent)
        fresh == GenerateId(gen)
    IN  IF Truthy(cookieVal)
        THEN Resolution(cookieVal, "cookie", cache1, doc, gen)
        ELSE IF fpOn /\ IsAvailable(agent) /\ Truthy(fingerprintId)
        THEN Resolution("fp_" \o TemplateString(fingerprintId), "fingerprint",
                        cache1, doc, gen)
        ELSE Resolution(fresh, "generated", cache1, doc, gen + 1)

GetUserId(cache, doc, gen, fpOn, agent) ==
    LET cookieVal == GetCookie(cache, doc, CID_COOKIE_NAME)
        cache1 == CacheAfterGet(cache, doc, CID_COOKIE_NAME)
        fingerprintId == GetVisitorId(agent)
        fresh == GenerateId(gen)
    IN  IF Truthy(cookieVal)
        THEN Resolution(cookieVal, "cookie", cache1, doc, gen)
        ELSE IF fpOn /\ IsAvailable(agent) /\ Truthy(fingerprintId)
        THEN Resolution("fp_" \o TemplateString(fingerprintId), "fingerprint",
                        cache1, doc, gen)
        ELSE Resolution(fresh, "generated",
                        SetCookieCache(cache1, CID_COOKIE_NAME, fresh),
                        SetCookieDoc(doc, CID_COOKIE_NAME, fresh), gen + 1)

\* history: what the first identity resolution of the page load gave
NoResolution == [cid |-> Undefined, via |-> "-"]

FirstResolutionAfter(first, cid, via) ==
    IF first = NoResolution THEN [cid |-> cid, via |-> via] ELSE first

\* getUserId in the current state
UserId == GetUserId(cookieCache, documentCookie, genCount,
                    fingerprintEnabled, fpAgent)

\* generateId() can still hand out an id within the bound
CanGenerate == genCount < MaxGen

\* generateVisitId that generates on every call
VisitIdAfterFresh(visit, gen) == GenerateId(gen)

\* generateVisitId: idGenerator.js:21-29
VisitIdAfter(visit, gen) == IF Truthy(visit) THEN visit ELSE GenerateId(gen)
GenAfterVisitId(visit, gen) == IF Truthy(visit) THEN gen ELSE gen + 1

(***************************************************************************)
(* init: trackerCore.js:92-141                                             *)
(***************************************************************************)
Urls == {"", "h", "h/"}

\* options.url.replace(/\/$/, ""), on Urls: one trailing slash is dropped
StripTrailingSlash(url) ==
    CASE url = "h/" -> "h"
      [] OTHER -> url

\* `!BASE_URL`
NotInitialized(base) == Falsy(base)

\* the init() options: url is a string of Urls or missing, and
\* fingerprintFallback is false or anything else
InitOptions == [url : Urls \cup {Undefined}, fingerprintFallback : BOOLEAN]

IdleInit == [pc |-> "idle", fp |-> "-", result |-> "-"]

\* the cid looked up and not made when it is missing
EnsureCookieCacheReadOnly(cache, doc, gen) ==
    CacheAfterGet(cache, doc, CID_COOKIE_NAME)

\* lines 118-123: ensure the cid cookie (and the executor of line 126-129,
\* whose getCookie finds the name cached)
EnsureCookieCache(cache, doc, gen) ==
    LET cookieVal == GetCookie(cache, doc, CID_COOKIE_NAME)
        cache1 == CacheAfterGet(cache, doc, CID_COOKIE_NAME)
    IN  IF Falsy(cookieVal)
        THEN SetCookieCache(cache1, CID_COOKIE_NAME, GenerateId(gen))
        ELSE cache1

EnsureCookieDoc(cache, doc, gen) ==
    IF Falsy(GetCookie(cache, doc, CID_COOKIE_NAME))
    THEN SetCookieDoc(doc, CID_COOKIE_NAME, GenerateId(gen))
    ELSE doc

EnsureCookieGen(cache, doc, gen) ==
    IF Falsy(GetCookie(cache, doc, CID_COOKIE_NAME)) THEN gen + 1 ELSE gen

EnsureCookie ==
    /\ Falsy(GetCookie(cookieCache, documentCookie, CID_COOKIE_NAME)) => CanGenerate
    /\ cookieCache' = EnsureCookieCache(cookieCache, documentCookie, genCount)
    /\ documentCookie' = EnsureCookieDoc(cookieCache, documentCookie, genCount)
    /\ genCount' = EnsureCookieGen(cookieCache, documentCookie, genCount)
    /\ firstResolution' =
           FirstResolutionAfter(firstResolution,
               EnsureCookieCache(cookieCache, documentCookie, genCount)[CID_COOKIE_NAME],
               IF Falsy(GetCookie(cookieCache, documentCookie, CID_COOKIE_NAME))
               THEN "generated" ELSE "cookie")

\* the value of _heartbeatInterval while no timer is held (null)
NoTimer == 0

\* a stop that forgets the handle and leaves the timer running
TimersAfterForget(live, handle) == live

\* clearInterval(_heartbeatInterval) when a timer is held
TimersAfterClear(live, handle) ==
    IF handle # NoTimer THEN live \ {handle} ELSE live

\* stopPassiveHeartbeat: trackerCore.js:81-86
StopPassiveHeartbeat ==
    /\ timers' = TimersAfterClear(timers, heartbeatInterval)
    /\ heartbeatInterval' = NoTimer

\* init() up to its first await: the options check, lines 99-103, and then
\* either initFingerprint() up to its await (line 108) or, with the
\* fallback off, lines 118-129
InitCall(i, options) ==
    /\ UNCHANGED sideVars
    /\ inits[i].pc = "idle"
    /\ \A j \in InitSlots : j < i => inits[j].pc # "idle"
    /\ IF TypeOf(options.url) # "string"
       THEN /\ lastEvent' = Settled("init", "-", FALSE, Undefined, Undefined,
                                    NoResponse, "ConfigurationError")
            /\ UNCHANGED <<inits>>
            /\ UNCHANGED <<BASE_URL, fingerprintEnabled, heartbeatInterval, timers,
                           fpAgent, fpPromise, cookieCache, documentCookie,
                           VISIT_ID, genCount, routeInitialized, calls,
                           initAccepted, firstResolution, serverCid>>
       ELSE /\ lastEvent' = NoEvent
            /\ StopPassiveHeartbeat
            /\ BASE_URL' = StripTrailingSlash(options.url)
            /\ fingerprintEnabled' = options.fingerprintFallback
            /\ initAccepted' = TRUE
            /\ IF options.fingerprintFallback
               THEN /\ fpPromise' = IF fpPromise # Null THEN fpPromise ELSE "pending"
                    /\ inits' = [inits EXCEPT ![i] =
                                    [pc |-> "await_fp",
                                     fp |-> IF fpPromise = "fulfilled" THEN "ok" ELSE "pending",
                                     result |-> "-"]]
                    /\ UNCHANGED <<identityVars, firstResolution>>
               ELSE /\ EnsureCookie
                    /\ inits' = [inits EXCEPT ![i] =
                                    [pc |-> "await_setup", fp |-> "-", result |-> "-"]]
                    /\ UNCHANGED fpPromise
            /\ UNCHANGED <<fpAgent, VISIT_ID, routeInitialized, calls, serverCid>>

\* FingerprintJS.load() settles, and initFingerprint's first caller runs on
\* from its await: routeTracker.js:130-139
FpSettle(loaded) ==
    /\ UNCHANGED sideVars
    /\ fpPromise = "pending"
    /\ lastEvent' = NoEvent
    /\ fpAgent' = IF loaded THEN FpAgent ELSE Null
    /\ fpPromise' = IF loaded THEN "fulfilled" ELSE Null
    /\ inits' = [i \in InitSlots |->
                    IF inits[i].pc = "await_fp" /\ inits[i].fp = "pending"
                    THEN [inits[i] EXCEPT !.fp = IF loaded THEN "ok" ELSE "fail"]
                    ELSE inits[i]]
    /\ UNCHANGED <<BASE_URL, fingerprintEnabled, heartbeatInterval, timers,
                   cookieCache, documentCookie, VISIT_ID, genCount,
                   routeInitialized, calls, initAccepted, firstResolution, serverCid>>

\* init() from the await of line 108 to the await of line 126
InitResume(i) ==
    /\ UNCHANGED sideVars
    /\ inits[i].pc = "await_fp"
    /\ inits[i].fp \in {"ok", "fail"}
    /\ lastEvent' = NoEvent
    /\ fingerprintEnabled' = IF inits[i].fp = "fail" THEN FALSE ELSE fingerprintEnabled
    /\ EnsureCookie
    /\ inits' = [inits EXCEPT ![i].pc = "await_setup"]
    /\ UNCHANGED <<BASE_URL, heartbeatInterval, timers, fpAgent, fpPromise,
                   VISIT_ID, routeInitialized, calls, initAccepted, serverCid>>

(***************************************************************************)
(* sendEvent 181-250, getEvents 258-326, getEvent 334-398,                 *)
(* personalize 410-481                                                     *)
(***************************************************************************)
FreeSlots == {s \in CallSlots : calls[s].pc = "idle"}
\* the calls take the slots in the order they are made
FreeSlot == CHOOSE s \in FreeSlots : \A t \in FreeSlots : s <= t

Awaiting(op, arg, resolution) ==
    [IdleCall EXCEPT !.op = op, !.arg = arg, !.pc = "await_uid",
                     !.cid = resolution.ret, !.via = resolution.via]

\* the name check without its typeof test
BadEventNameFalsy(name) == Falsy(name)

\* sendEvent's name check, line 187
BadEventName(name) == Falsy(name) \/ TypeOf(name) # "string"
\* getEvents' name check, line 265
MissingName(name) == Falsy(name)

\* the error a call raises before it resolves the identity, or "-":
\* sendEvent 182-189, getEvents 259-267, getEvent 335-339, personalize 411-415
\* the checks with the name check ahead of the BASE_URL check
EarlyErrorNameFirst(op, arg, base) ==
    IF op = "sendEvent" /\ BadEventName(arg) THEN "ValidationError"
    ELSE IF op = "getEvents" /\ MissingName(arg) THEN "ValidationError"
    ELSE IF NotInitialized(base) THEN "ConfigurationError"
    ELSE "-"

\* the checks without getEvents' name check
EarlyErrorSendOnly(op, arg, base) ==
    IF NotInitialized(base) THEN "ConfigurationError"
    ELSE IF op = "sendEvent" /\ BadEventName(arg) THEN "ValidationError"
    ELSE "-"

EarlyError(op, arg, base) ==
    IF NotInitialized(base) THEN "ConfigurationError"
    ELSE IF op = "sendEvent" /\ BadEventName(arg) THEN "ValidationError"
    ELSE IF op = "getEvents" /\ MissingName(arg) THEN "ValidationError"
    ELSE "-"

\* a call from its start to its `await getUserId()`, made when window.VISIT_ID
\* is visit0 and generateId() has produced gen0 ids:
\* sendEvent 182-192, getEvents 259-269, getEvent 335-342, personalize 411-418
StartCall(op, arg, visit0, gen0) ==
    LET error == EarlyError(op, arg, BASE_URL)
        visit == IF op = "sendEvent" THEN VisitIdAfter(visit0, gen0) ELSE visit0
        gen1 == IF op = "sendEvent" THEN GenAfterVisitId(visit0, gen0) ELSE gen0
        r == GetUserId(cookieCache, documentCookie, gen1, fingerprintEnabled, fpAgent)
    IN  IF error # "-"
        THEN /\ gen0 <= MaxGen
             /\ lastEvent' = Settled(op, arg, FALSE, Undefined, Undefined,
                                     NoResponse, error)
             /\ VISIT_ID' = visit0
             /\ genCount' = gen0
             /\ UNCHANGED <<calls, cookieCache, documentCookie, firstResolution>>
        ELSE /\ FreeSlots # {}
             /\ r.gen <= MaxGen
             /\ calls' = [calls EXCEPT ![FreeSlot] = Awaiting(op, arg, r)]
             /\ lastEvent' = NoEvent
             /\ VISIT_ID' = visit
             /\ cookieCache' = r.cache
             /\ documentCookie' = r.doc
             /\ genCount' = r.gen
             /\ firstResolution' = FirstResolutionAfter(firstResolution, r.ret, r.via)

\* the calls the page makes
PageCalls ==
    {<<"sendEvent", n>> : n \in EventNames}
    \cup {<<"getEvents", n>> : n \in QueryNames}
    \cup {<<"getEvent", "evt">>, <<"personalize", "-">>}

Call(op, arg) ==
    /\ UNCHANGED sideVars
    /\ StartCall(op, arg, VISIT_ID, genCount)
    /\ UNCHANGED <<BASE_URL, fingerprintEnabled, heartbeatInterval, timers, fpAgent,
                   fpPromise, routeInitialized, inits, initAccepted, serverCid>>

\* the request headers: x-cid always, x-aid and x-ip when the value is truthy
Headers(userId, aid, enforcedIp) ==
    [xcid |-> userId,
     xaid |-> IF Truthy(aid) THEN aid ELSE Undefined,
     xip |-> IF Truthy(enforcedIp) THEN enforcedIp ELSE Undefined]

\* a call from its `await getUserId()` to its `await fetch(...)`:
\* sendEvent 193-229, getEvents 270-310, getEvent 343-363, personalize 419-439
Resume(s) ==
    LET aid == GetCookie(cookieCache, documentCookie, AID_COOKIE_NAME)
        cache1 == CacheAfterGet(cookieCache, documentCookie, AID_COOKIE_NAME)
        enforcedIp == GetCookie(cache1, documentCookie, ENFORCE_IP_COOKIE_NAME)
        cache2 == CacheAfterGet(cache1, documentCookie, ENFORCE_IP_COOKIE_NAME)
    IN  /\ calls[s].pc = "await_uid"
        /\ UNCHANGED sideVars
        /\ cookieCache' = cache2
        /\ calls' = [calls EXCEPT ![s].pc = "fetch", ![s].aid = aid,
                                  ![s].ip = enforcedIp,
                                  ![s].headers = Headers(calls[s].cid, aid, enforcedIp)]
        /\ lastEvent' = NoEvent
        /\ UNCHANGED <<BASE_URL, fingerprintEnabled, heartbeatInterval, timers, fpAgent,
                       fpPromise, documentCookie, VISIT_ID, genCount, routeInitialized,
                       inits, initAccepted, firstResolution, serverCid>>

\* sendEvent settling with `!ok` in place of `ok === false`
SendEventResultFalsy(r) ==
    IF r.kind = "neterr" THEN "NetworkError"
    ELSE IF r.kind = "badjson" THEN "SyntaxError"
    ELSE IF r.kind = "nullbody" \/ Falsy(r.ok) THEN "ServerError"
    ELSE "fulfilled"

\* sendEvent 224-249: how the call settles.  response.ok is not looked at.
SendEventResult(r) ==
    IF r.kind = "neterr" THEN "NetworkError"
    ELSE IF r.kind = "badjson" THEN "SyntaxError"
    ELSE IF r.ok = FalseValue THEN "ServerError"
    ELSE "fulfilled"

\* sendEvent 236-243: the cookies written for a response that did not fail
\* the cid test with `===` in place of `!==`
SendEventWritesCidSame(r, userId) == Truthy(r.cid) /\ r.cid = userId
SendEventWritesCid(r, userId) == Truthy(r.cid) /\ r.cid # userId
SendEventWritesAid(r, aid) == Truthy(r.aid) /\ r.aid # aid

\* getEvents 306-325 and getEvent 360-397: how the call settles
QueryResult(r) ==
    IF r.kind = "neterr" THEN "NetworkError"
    ELSE IF ~r.httpOk THEN "ServerError"
    ELSE IF r.kind = "badjson" THEN "SyntaxError"
    ELSE "fulfilled"

\* personalize 436-480: how the call settles; `const { data } = null` throws
PersonalizeResult(r) ==
    IF r.kind = "neterr" THEN "NetworkError"
    ELSE IF ~r.httpOk THEN "ServerError"
    ELSE IF r.kind = "badjson" THEN "SyntaxError"
    ELSE IF r.kind = "nullbody" THEN "TypeError"
    ELSE "fulfilled"

\* personalize 449-456: the cookies written
PersonalizeWritesCid(r) == Truthy(r.cid)
PersonalizeWritesAid(r) == Truthy(r.aid)

CallResult(c, r) ==
    CASE c.op = "sendEvent" -> SendEventResult(r)
      [] c.op = "personalize" -> PersonalizeResult(r)
      [] OTHER -> QueryResult(r)

WritesCid(c, r) ==
    /\ CallResult(c, r) = "fulfilled"
    /\ \/ c.op = "sendEvent" /\ SendEventWritesCid(r, c.cid)
       \/ c.op = "personalize" /\ PersonalizeWritesCid(r)

WritesAid(c, r) ==
    /\ CallResult(c, r) = "fulfilled"
    /\ \/ c.op = "sendEvent" /\ SendEventWritesAid(r, c.aid)
       \/ c.op = "personalize" /\ PersonalizeWritesAid(r)

\* _lastEventTimestamp written whatever the outcome
StampAfterAlways(op, result, t, stamp) == t

\* _lastEventTimestamp after a call has settled: sendEvent's last statement
\* in its try block, line 245
StampAfter(op, result, t, stamp) ==
    IF op = "sendEvent" /\ result = "fulfilled" THEN t ELSE stamp

\* a call from its `await fetch(...)` to its end
Respond(s, r) ==
    LET c == calls[s]
        cache1 == IF WritesCid(c, r)
                  THEN SetCookieCache(cookieCache, CID_COOKIE_NAME, r.cid)
                  ELSE cookieCache
        doc1 == IF WritesCid(c, r)
                THEN SetCookieDoc(documentCookie, CID_COOKIE_NAME, r.cid)
                ELSE documentCookie
    IN  /\ c.pc = "fetch"
        /\ UNCHANGED quietVars
        /\ lastEventTimestamp' = StampAfter(c.op, CallResult(c, r), now,
                                            lastEventTimestamp)
        /\ cookieCache' = IF WritesAid(c, r)
                          THEN SetCookieCache(cache1, AID_COOKIE_NAME, r.aid)
                          ELSE cache1
        /\ documentCookie' = IF WritesAid(c, r)
                             THEN SetCookieDoc(doc1, AID_COOKIE_NAME, r.aid)
                             ELSE doc1
        /\ calls' = [calls EXCEPT ![s] = DoneCall]
        /\ lastEvent' = Settled(c.op, c.arg, TRUE, c.cid, c.aid, r, CallResult(c, r))
        /\ serverCid' = (serverCid \/ Truthy(r.cid))
        /\ UNCHANGED <<BASE_URL, fingerprintEnabled, heartbeatInterval, timers, fpAgent,
                       fpPromise, VISIT_ID, genCount, routeInitialized, inits,
                       initAccepted, firstResolution>>

(***************************************************************************)
(* init, continued: the callback of line 130-135 and lines 137-140         *)
(***************************************************************************)
\* setupRouteTracking (routeTracker.js:41-101) on a loaded document: the
\* first run fixes the visit id, reports the page with
\* sendEvent("page_visit", ...) and sets _initialized; later runs return at
\* line 42
InitSetup(i) ==
    /\ UNCHANGED sideVars
    /\ inits[i].pc = "await_setup"
    /\ inits' = [inits EXCEPT ![i].pc = "await_start"]
    /\ routeInitialized' = TRUE
    /\ IF routeInitialized
       THEN /\ lastEvent' = NoEvent
            /\ UNCHANGED <<calls, VISIT_ID, cookieCache, documentCookie, genCount,
                           firstResolution>>
       ELSE StartCall("sendEvent", "evt", VisitIdAfter(VISIT_ID, genCount),
                      GenAfterVisitId(VISIT_ID, genCount))
    /\ UNCHANGED <<BASE_URL, fingerprintEnabled, heartbeatInterval, timers, fpAgent,
                   fpPromise, initAccepted, serverCid>>

\* startPassiveHeartbeat, trackerCore.js:53-76: the timer held is cleared
\* and a new one is set; init() resets _lastEventTimestamp before, line 138
\* startPassiveHeartbeat without the clearInterval of the timer held
TimersAfterStartKeep(live, handle) ==
    live \cup {CHOOSE h \in 1..(Cardinality(live) + 1) : h \notin live}

TimersAfterStart(live, handle) ==
    LET rest == TimersAfterClear(live, handle)
    IN  rest \cup {CHOOSE h \in 1..(Cardinality(rest) + 1) : h \notin rest}

HandleAfterStart(live, handle) ==
    LET rest == TimersAfterClear(live, handle)
    IN  CHOOSE h \in 1..(Cardinality(rest) + 1) : h \notin rest

InitStart(i) ==
    /\ UNCHANGED quietVars
    /\ lastEventTimestamp' = now
    /\ inits[i].pc = "await_start"
    /\ inits' = [inits EXCEPT ![i].pc = "done", ![i].result = "fulfilled"]
    /\ timers' = TimersAfterStart(timers, heartbeatInterval)
    /\ heartbeatInterval' = HandleAfterStart(timers, heartbeatInterval)
    /\ lastEvent' = NoEvent
    /\ UNCHANGED <<BASE_URL, fingerprintEnabled, fpAgent, fpPromise, cookieCache,
                   documentCookie, VISIT_ID, genCount, routeInitialized, calls,
                   initAccepted, firstResolution, serverCid>>

\* a tick of a live heartbeat timer that finds the last event old enough:
\* sendEvent("visit_duration_update"), trackerCore.js:60-75
HeartbeatTick ==
    /\ UNCHANGED sideVars
    /\ timers # {}
    /\ StartCall("sendEvent", "evt", VISIT_ID, genCount)
    /\ UNCHANGED <<BASE_URL, fingerprintEnabled, heartbeatInterval, timers, fpAgent,
                   fpPromise, routeInitialized, inits, initAccepted, serverCid>>

(***************************************************************************)
(* The page clears its cookies: unnamed/part_005:44-55                     *)
(***************************************************************************)
ClearCookies ==
    /\ UNCHANGED sideVars
    /\ \E n \in CookieNames : documentCookie[n] # Null
    /\ documentCookie' = [n \in CookieNames |-> Null]
    /\ lastEvent' = NoEvent
    /\ UNCHANGED <<BASE_URL, fingerprintEnabled, heartbeatInterval, timers, fpAgent,
                   fpPromise, cookieCache, VISIT_ID, genCount, routeInitialized,
                   inits, calls, initAccepted, firstResolution, serverCid>>

(***************************************************************************)
(* The passive heartbeat: trackerCore.js:53-86 and 137-140, and the other  *)
(* tracker core of the repository, unnamed/part_002:63-138 and 187-189     *)
(* (its branch for pages that are not Next.js).  Time is counted in units  *)
(* of 100 ms.  The runs of the heartbeat follow init() and sendEvent()     *)
(* only as far as they touch the timer, the clock values and the calls     *)
(* under way; what they do to the identity is in the actions above.        *)
(***************************************************************************)
Builds == {"trackerCore", "part_002"}

\* the 100 of `intervalMs - 100`, in units of 100 ms
Epsilon == 1

\* a time that may not have come yet is the set of at most one clock value
NoTime == {}
\* the timer callback that ran: when, whether it called sendEvent, when a
\* sendEvent call had last completed successfully, when a callback had last
\* run; or the heartbeat that settled: how its callback took it
NoTick ==
    [at |-> 0, ran |-> FALSE, sent |-> FALSE, quiet |-> NoTime, prev |-> NoTime,
     settled |-> "-"]

\* the module state when the script has been evaluated
HeartbeatLoaded ==
    /\ now = 0
    /\ lastEventTimestamp = 0
    /\ lastHeartbeatTimestamp = 0
    /\ isHeartbeatRunning = FALSE
    /\ due = [h \in {} |-> 0]
    /\ inflight = [heartbeat |-> 0, other |-> 0]
    /\ hbInits = [stopped |-> 0, armed |-> 0]
    /\ tickEvent = NoTick
    /\ lastCompleted = NoTime
    /\ prevTick = NoTime

\* the timer callback's decision to send: trackerCore.js:61-63,
\* part_002:106-111
TickSends(b, running, t, lastEvent0, lastHeartbeat) ==
    IF b = "trackerCore" THEN t - lastEvent0 > IntervalMs - Epsilon
    ELSE ~running /\ t - lastHeartbeat > IntervalMs - Epsilon

\* stopPassiveHeartbeat: trackerCore.js:81-86, part_002:132-138
HbStop ==
    /\ timers' = TimersAfterClear(timers, heartbeatInterval)
    /\ heartbeatInterval' = NoTimer
    /\ due' = [h \in TimersAfterClear(timers, heartbeatInterval) |-> due[h]]
    /\ isHeartbeatRunning' = IF build = "part_002" THEN FALSE ELSE isHeartbeatRunning

hbFrame == <<fingerprintEnabled, fpAgent, fpPromise, cookieCache, documentCookie,
             VISIT_ID, genCount, inits, calls, lastEvent, firstResolution,
             serverCid, build, pzVars, pl, laterVars>>

\* init() with usable options up to its first await: the heartbeat is stopped
HbInitCall ==
    /\ hbInits.stopped + hbInits.armed < MaxOverlap
    /\ HbStop
    /\ BASE_URL' = "h"
    /\ initAccepted' = TRUE
    /\ hbInits' = [hbInits EXCEPT !.stopped = @ + 1]
    /\ tickEvent' = NoTick
    /\ UNCHANGED <<hbFrame, routeInitialized, now, lastEventTimestamp,
                   lastHeartbeatTimestamp, inflight, lastCompleted, prevTick>>

\* init() from there to the await of line 126: the first run of
\* setupRouteTracking reports the page with sendEvent
HbInitSetup ==
    /\ hbInits.stopped > 0
    /\ routeInitialized \/ inflight.other < MaxInFlight
    /\ hbInits' = [stopped |-> hbInits.stopped - 1, armed |-> hbInits.armed + 1]
    /\ routeInitialized' = TRUE
    /\ inflight' = IF routeInitialized THEN inflight
                   ELSE [inflight EXCEPT !.other = @ + 1]
    /\ tickEvent' = NoTick
    /\ UNCHANGED <<hbFrame, BASE_URL, initAccepted, timers, heartbeatInterval, due,
                   isHeartbeatRunning, now, lastEventTimestamp,
                   lastHeartbeatTimestamp, lastCompleted, prevTick>>

\* init() lines 137-140 (part_002:187-189): the timestamps are reset and
\* the heartbeat is started
HbInitStart ==
    /\ hbInits.armed > 0
    /\ hbInits' = [hbInits EXCEPT !.armed = @ - 1]
    /\ lastEventTimestamp' = now
    /\ lastHeartbeatTimestamp' = IF build = "part_002" THEN now
                                 ELSE lastHeartbeatTimestamp
    /\ timers' = TimersAfterStart(timers, heartbeatInterval)
    /\ heartbeatInterval' = HandleAfterStart(timers, heartbeatInterval)
    /\ due' = [h \in TimersAfterStart(timers, heartbeatInterval) |->
                  IF h \in TimersAfterClear(timers, heartbeatInterval)
                  THEN due[h] ELSE now + IntervalMs]
    /\ tickEvent' = NoTick
    /\ UNCHANGED <<hbFrame, BASE_URL, initAccepted, routeInitialized,
                   isHeartbeatRunning, now, inflight, lastCompleted, prevTick>>

\* the page calls the stopPassiveHeartbeat that part_002 exports
HbPageStop ==
    /\ build = "part_002"
    /\ heartbeatInterval # NoTimer \/ isHeartbeatRunning
    /\ HbStop
    /\ tickEvent' = NoTick
    /\ UNCHANGED <<hbFrame, BASE_URL, initAccepted, routeInitialized, now,
                   lastEventTimestamp, lastHeartbeatTimestamp, inflight, hbInits,
                   lastCompleted, prevTick>>

\* the page or a tracker calls sendEvent(name, ...) with a usable name
HbSendEvent ==
    /\ ~NotInitialized(BASE_URL)
    /\ inflight.other < MaxInFlight
    /\ inflight' = [inflight EXCEPT !.other = @ + 1]
    /\ tickEvent' = NoTick
    /\ UNCHANGED <<hbFrame, BASE_URL, initAccepted, routeInitialized, timers,
                   heartbeatInterval, due, isHeartbeatRunning, now,
                   lastEventTimestamp, lastHeartbeatTimestamp, hbInits,
                   lastCompleted, prevTick>>

\* a live timer fires: the callback of trackerCore.js:60-75, part_002:105-125
HbTick(h) ==
    LET sends == TickSends(build, isHeartbeatRunning, now, lastEventTimestamp,
                           lastHeartbeatTimestamp)
    IN  /\ h \in timers
        /\ due[h] = now
        /\ sends => inflight.heartbeat < MaxInFlight
        /\ due' = [due EXCEPT ![h] = now + IntervalMs]
        /\ inflight' = IF sends THEN [inflight EXCEPT !.heartbeat = @ + 1]
                       ELSE inflight
        /\ isHeartbeatRunning' = IF sends /\ build = "part_002" THEN TRUE
                                 ELSE isHeartbeatRunning
        /\ tickEvent' = [at |-> now, ran |-> TRUE, sent |-> sends,
                         quiet |-> lastCompleted, prev |-> prevTick,
                         settled |-> "-"]
        /\ prevTick' = {now}
        /\ UNCHANGED <<hbFrame, BASE_URL, initAccepted, routeInitialized, timers,
                       heartbeatInterval, now, lastEventTimestamp,
                       lastHeartbeatTimestamp, hbInits, lastCompleted>>

\* the guard released only in the then of part_002:115-117
GuardAfterSettleOnSuccess(b, kind, success, running) ==
    IF kind = "heartbeat" /\ b = "part_002" /\ success THEN FALSE ELSE running

\* _isHeartbeatRunning once a call has settled: the finally of
\* part_002:121-123; trackerCore.js has no guard
GuardAfterSettle(b, kind, success, running) ==
    IF kind = "heartbeat" /\ b = "part_002" THEN FALSE ELSE running

\* what the timer callback makes of its sendEvent: a failure is caught and
\* logged with console.warn, trackerCore.js:69-74 and part_002:118-120
HeartbeatOutcome(kind, success) ==
    CASE kind # "heartbeat" -> "-"
      [] success -> "sent"
      [] OTHER -> "warned"

\* a sendEvent call settles: trackerCore.js:245 on success; for a heartbeat
\* of part_002 also its then and finally, lines 115-123
HbSettle(kind, success) ==
    /\ inflight[kind] > 0
    /\ inflight' = [inflight EXCEPT ![kind] = @ - 1]
    /\ lastEventTimestamp' = IF success THEN now ELSE lastEventTimestamp
    /\ lastHeartbeatTimestamp' =
          IF success /\ kind = "heartbeat" /\ build = "part_002" THEN now
          ELSE lastHeartbeatTimestamp
    /\ isHeartbeatRunning' = GuardAfterSettle(build, kind, success, isHeartbeatRunning)
    /\ lastCompleted' = IF success THEN {now} ELSE lastCompleted
    /\ tickEvent' = [NoTick EXCEPT !.settled = HeartbeatOutcome(kind, success)]
    /\ UNCHANGED <<hbFrame, BASE_URL, initAccepted, routeInitialized, timers,
                   heartbeatInterval, due, now, hbInits, prevTick>>

\* 100 ms pass; a timer that is due fires first
HbAdvance ==
    /\ now < MaxTime
    /\ \A h \in timers : due[h] > now
    /\ now' = now + 1
    /\ tickEvent' = NoTick
    /\ UNCHANGED <<hbFrame, BASE_URL, initAccepted, routeInitialized, timers,
                   heartbeatInterval, due, isHeartbeatRunning,
                   lastEventTimestamp, lastHeartbeatTimestamp, inflight, hbInits,
                   lastCompleted, prevTick>>

(***************************************************************************)
(* Personalization: _applyPersonalization and _clearPersonalizationFlags,  *)
(* personalization.js:20-65, and what personalize(), trackerCore.js:410-   *)
(* 481, does to the document.  An element carries at most one binding      *)
(* attribute; its textContent, src and href start as "old".  What          *)
(* personalize() does to the identity is in the actions above.             *)
(***************************************************************************)
Elements == 1..MaxElements

PERSONALIZATION_ATTRIBUTE == "PERSONALIZATION_ATTRIBUTE"
PERSONALIZATION_ATTRIBUTE_COPY == "PERSONALIZATION_ATTRIBUTE_COPY"
PERSONALIZATION_ATTRIBUTE_SRC == "PERSONALIZATION_ATTRIBUTE_SRC"
PERSONALIZATION_ATTRIBUTE_HREF == "PERSONALIZATION_ATTRIBUTE_HREF"
\* constants.js is not among the sources: the list is taken to hold the
\* four attributes _applyPersonalization has a branch for
ALL_PERSONALIZATION_ATTRIBUTES ==
    {PERSONALIZATION_ATTRIBUTE_COPY, PERSONALIZATION_ATTRIBUTE_SRC,
     PERSONALIZATION_ATTRIBUTE_HREF, PERSONALIZATION_ATTRIBUTE}
\* an element that carries none of them
NoAttribute == "<none>"

\* an element: its binding attribute and that attribute's value, its
\* content properties, and its PERSONALIZATION_FLAG attribute (null: not set)
Element(attr, key) ==
    [attr |-> attr, key |-> key, textContent |-> "old", src |-> "old",
     href |-> "old", flag |-> Null]

Keys == {"k1", "k2"}

InitialElements ==
    {Element(a, k) : a \in ALL_PERSONALIZATION_ATTRIBUTES, k \in Keys \cup {""}}
    \cup {Element(NoAttribute, "")}

\* a value of the personalization object: a scalar, or an object with the
\* properties copy, src and href (Undefined: the property is absent)
ObjectValue == "<object>"
Scalar(v) == [scalar |-> v, copy |-> Undefined, src |-> Undefined, href |-> Undefined]
Object(copy, src, href) == [scalar |-> ObjectValue, copy |-> copy, src |-> src, href |-> href]
\* personalizationObject[key] for a key the object does not have
Absent == Scalar(Undefined)

IsObject(v) == v.scalar = ObjectValue
TruthyValue(v) == IsObject(v) \/ Truthy(v.scalar)

\* the string a DOM property holds after it is assigned v
StringOf(v) ==
    CASE IsObject(v) -> "[object Object]"
      [] v.scalar = ZeroValue -> "0"
      [] OTHER -> TemplateString(v.scalar)

MapValues ==
    {Scalar("Hello"), Scalar(""), Scalar(ZeroValue),
     Object("Hi", "s.png", Undefined), Object("", Undefined, "/x")}

\* the personalization objects: k1 is mapped, k2 is not; or both are
Maps ==
    {[k \in Keys |-> IF k = "k1" THEN v ELSE Absent] : v \in MapValues}
    \cup {[k \in Keys |-> Absent],
          [k \in Keys |-> IF k = "k1" THEN Scalar("Hello")
                          ELSE Object("Hi", "s.png", Undefined)]}

\* the loop body of personalization.js:23-54 with the flag set only on a match
ApplyElementOnMatch(el, map) ==
    IF el.attr \in ALL_PERSONALIZATION_ATTRIBUTES /\ Truthy(el.key)
           /\ TruthyValue(map[el.key])
    THEN [el EXCEPT !.textContent = StringOf(map[el.key]), !.flag = "true"]
    ELSE el

\* personalization.js:23-54 for one element
ApplyElement(el, map) ==
    LET hit == IF Truthy(el.key) THEN TruthyValue(map[el.key]) ELSE FALSE
        v == map[el.key]
        written ==
            CASE ~hit -> el
              [] el.attr = PERSONALIZATION_ATTRIBUTE_COPY ->
                    [el EXCEPT !.textContent = StringOf(v)]
              [] el.attr = PERSONALIZATION_ATTRIBUTE_SRC ->
                    [el EXCEPT !.src = StringOf(v)]
              [] el.attr = PERSONALIZATION_ATTRIBUTE_HREF ->
                    [el EXCEPT !.href = StringOf(v)]
              [] IsObject(v) ->
                    [el EXCEPT
                        !.textContent = IF v.copy # Undefined THEN v.copy ELSE @,
                        !.src = IF v.src # Undefined THEN v.src ELSE @,
                        !.href = IF v.href # Undefined THEN v.href ELSE @]
              [] OTHER -> el
    IN  IF el.attr \in ALL_PERSONALIZATION_ATTRIBUTES
        THEN [written EXCEPT !.flag = "true"]
        ELSE el

\* _applyPersonalization: personalization.js:20-56
ApplyPersonalization(d, map) == [e \in Elements |-> ApplyElement(d[e], map)]

\* a failure that leaves the document as it is
KeepFlags(d) == d

\* _clearPersonalizationFlags: personalization.js:58-65
ClearPersonalizationFlags(d) ==
    [e \in Elements |->
        IF d[e].attr \in ALL_PERSONALIZATION_ATTRIBUTES
        THEN [d[e] EXCEPT !.flag = "true"]
        ELSE d[e]]

\* the DOMContentLoaded listeners run in the order they were added
RECURSIVE ApplyAll(_, _)
ApplyAll(d, maps) ==
    IF maps = <<>> THEN d
    ELSE ApplyAll(ApplyPersonalization(d, Head(maps)), Tail(maps))

\* the answers to personalize()'s request: kind and httpOk as in Response;
\* has tells whether body.data.personalization is there, map what it is
PzResponse(kind, httpOk, has, map) ==
    [kind |-> kind, httpOk |-> httpOk, has |-> has, map |-> map]

NoMap == [k \in Keys |-> Absent]
NoPzResponse == PzResponse("-", FALSE, FALSE, NoMap)

PzResponses ==
    {PzResponse("neterr", FALSE, FALSE, NoMap),
     PzResponse("badjson", TRUE, FALSE, NoMap),
     PzResponse("nullbody", TRUE, FALSE, NoMap),
     PzResponse("json", FALSE, TRUE, NoMap),
     PzResponse("json", TRUE, FALSE, NoMap)}
    \cup {PzResponse("json", TRUE, TRUE, m) : m \in Maps}

\* what the caller passes as callback: nothing, a function that returns,
\* a function that throws
Callbacks == {"none", "returns", "throws"}

IdlePz == [pc |-> "idle", callback |-> "none"]

\* what a step did: which operation settled, with which callback, on which
\* answer and how; how often and with what the callback was called; the
\* objects _applyPersonalization was run on, in order; and the document as
\* it was before the step
PzEvent(op, callback, resp, result, callbacks, raw, maps, before) ==
    [op |-> op, callback |-> callback, resp |-> resp, result |-> result,
     callbacks |-> callbacks, raw |-> raw, maps |-> maps, before |-> before]

NoPzEvent(before) ==
    PzEvent("-", "none", NoPzResponse, "-", 0, NoPzResponse, <<>>, before)

\* the state of a page on which personalize() is not followed
NoDocument ==
    /\ dom = [e \in Elements |-> Element(NoAttribute, "")]
    /\ docLoading = FALSE
    /\ listeners = <<>>
    /\ pz = IdlePz
    /\ pzCalls = 0
    /\ pzEvent = NoPzEvent(dom)

\* how personalize() settles: trackerCore.js:436-480, the callback included
PzResult(callback, r) ==
    IF PersonalizeResult(r) # "fulfilled" THEN PersonalizeResult(r)
    ELSE IF callback = "throws" THEN "CallbackError"
    ELSE "fulfilled"

\* personalize() applying the object at once on a loading document too
DomAfterFulfilAtOnce(callback, d, loading, r) ==
    IF callback # "none" THEN d
    ELSE IF r.has THEN ApplyPersonalization(d, r.map)
    ELSE d

\* personalize() with the callback branch of lines 458-462 not returning
DomAfterFulfilIgnoringCallback(callback, d, loading, r) ==
    IF r.has /\ ~loading THEN ApplyPersonalization(d, r.map) ELSE d

\* the document after lines 458-474 when nothing has thrown
DomAfterFulfil(callback, d, loading, r) ==
    IF callback # "none" THEN d
    ELSE IF r.has /\ ~loading THEN ApplyPersonalization(d, r.map)
    ELSE d

pzFrame == <<fingerprintEnabled, heartbeatInterval, timers, fpAgent, fpPromise,
             VISIT_ID, routeInitialized, inits, calls, lastEvent, serverCid, hbVars,
             pl, laterVars>>

pzIdentity == <<cookieCache, documentCookie, genCount, firstResolution>>

\* init() with a usable url, as far as personalize() sees it: line 102
PzInitCall ==
    /\ NotInitialized(BASE_URL)
    /\ BASE_URL' = "h"
    /\ initAccepted' = TRUE
    /\ pzEvent' = NoPzEvent(dom)
    /\ UNCHANGED <<pzFrame, pzIdentity, dom, docLoading, listeners, pz, pzCalls>>

\* personalize(callback) up to its fetch: lines 411-439, with the identity
\* resolved and the two cookies read on the way
PzCall(callback) ==
    LET r == GetUserId(cookieCache, documentCookie, genCount,
                       fingerprintEnabled, fpAgent)
        cache1 == CacheAfterGet(r.cache, r.doc, AID_COOKIE_NAME)
        cache2 == CacheAfterGet(cache1, r.doc, ENFORCE_IP_COOKIE_NAME)
    IN  /\ pz.pc = "idle"
        /\ IF NotInitialized(BASE_URL)
           THEN /\ pzEvent' = PzEvent("personalize", callback, NoPzResponse,
                                      "ConfigurationError", 0, NoPzResponse,
                                      <<>>, dom)
                /\ UNCHANGED <<pz, pzCalls, pzIdentity>>
           ELSE /\ pzCalls < MaxPersonalize
                /\ r.gen <= MaxGen
                /\ pzCalls' = pzCalls + 1
                /\ pz' = [pc |-> "fetch", callback |-> callback]
                /\ pzEvent' = NoPzEvent(dom)
                /\ cookieCache' = cache2
                /\ documentCookie' = r.doc
                /\ genCount' = r.gen
                /\ firstResolution' = FirstResolutionAfter(firstResolution, r.ret, r.via)
        /\ UNCHANGED <<pzFrame, BASE_URL, initAccepted, dom, docLoading, listeners>>

\* personalize() from its fetch to its end: lines 436-480.  The answers
\* here carry no aid and no cid, so lines 448-455 write no cookie.
PzRespond(r) ==
    LET result == PzResult(pz.callback, r)
        called == IF PersonalizeResult(r) = "fulfilled" /\ pz.callback # "none"
                  THEN 1 ELSE 0
        defers == result = "fulfilled" /\ pz.callback = "none" /\ r.has /\ docLoading
        applies == result = "fulfilled" /\ pz.callback = "none" /\ r.has /\ ~docLoading
    IN  /\ pz.pc = "fetch"
        /\ pz' = IdlePz
        /\ dom' = IF result = "fulfilled"
                  THEN DomAfterFulfil(pz.callback, dom, docLoading, r)
                  ELSE ClearPersonalizationFlags(dom)
        /\ listeners' = IF defers THEN Append(listeners, r.map) ELSE listeners
        /\ pzEvent' = PzEvent("personalize", pz.callback, r, result, called,
                              IF called = 1 THEN r ELSE NoPzResponse,
                              IF applies THEN <<r.map>> ELSE <<>>, dom)
        /\ UNCHANGED <<pzFrame, pzIdentity, BASE_URL, initAccepted, docLoading,
                       pzCalls>>

\* the document has been parsed: the listeners of line 467-469 run
DomContentLoaded ==
    /\ docLoading
    /\ docLoading' = FALSE
    /\ dom' = ApplyAll(dom, listeners)
    /\ listeners' = <<>>
    /\ pzEvent' = PzEvent("DOMContentLoaded", "none", NoPzResponse, "-", 0,
                          NoPzResponse, listeners, dom)
    /\ UNCHANGED <<pzFrame, pzIdentity, BASE_URL, initAccepted, pz, pzCalls>>

(***************************************************************************)
(* The payload of sendEvent: trackerCore.js:191-209 and 228.  A value of   *)
(* data is its kind, the names of its own fields other than visitId (for   *)
(* a plain object), and the visitId field it brings along (Undefined: it   *)
(* has none).                                                              *)
(***************************************************************************)
Data(type, fields, own) == [type |-> type, fields |-> fields, own |-> own]

\* no value at all: the key is not in the object
NoData == Data("<absent>", {}, Undefined)

DataValues ==
    {Data("undefined", {}, Undefined), Data("null", {}, Undefined),
     Data("number", {}, Undefined), Data("string", {}, Undefined),
     Data("array", {}, Undefined), Data("object", {}, Undefined),
     Data("object", {"x"}, Undefined), Data("object", {"x"}, "mine")}

\* typeof data
TypeOfData(data) ==
    IF data.type \in {"null", "array", "object"} THEN "object" ELSE data.type

\* the test of lines 198-203
IsWrapped(data) ==
    \/ data.type = "null"
    \/ data.type = "undefined"
    \/ TypeOfData(data) # "object"
    \/ data.type = "array"

\* eventData with { visitId, ...data } in place of { ...data, visitId }
EventDataDataWins(data, visitId) ==
    IF IsWrapped(data)
    THEN [value |-> data, fields |-> {}, visitId |-> visitId]
    ELSE [value |-> NoData, fields |-> data.fields,
          visitId |-> IF data.own # Undefined THEN data.own ELSE visitId]

\* eventData: lines 197-207
EventData(data, visitId) ==
    IF IsWrapped(data)
    THEN [value |-> data, fields |-> {}, visitId |-> visitId]
    ELSE [value |-> NoData, fields |-> data.fields, visitId |-> visitId]

\* JSON.stringify, line 228: a key whose value is undefined is left out
Stringify(eventData) ==
    [eventData EXCEPT !.value = IF @.type = "undefined" THEN NoData ELSE @]

\* a payload on its way: the data passed, the call's visitId, and the body
NoPayload == [data |-> NoData, visitId |-> Undefined,
              body |-> [value |-> NoData, fields |-> {}, visitId |-> Undefined]]

\* pl: flight holds the sendEvent calls under way, each at its
\* `await getUserId()` or at its fetch; begun and armed count the init()
\* calls at the await of line 126 and before line 137; started counts all
\* init() calls.  History: sent is the set of visitIds of the bodies sent,
\* count their number, made how often generateVisitId generated an id, and
\* event the payload sent in the last step.
NoPayloads ==
    pl = [flight |-> <<>>, begun |-> 0, armed |-> 0, started |-> 0,
          sent |-> {}, count |-> 0, made |-> 0, event |-> NoPayload]

RemoveAt(seq, i) == [j \in 1..(Len(seq) - 1) |-> IF j < i THEN seq[j] ELSE seq[j + 1]]

plFrame == <<fpAgent, fpPromise, inits, calls, lastEvent, hbVars, pzVars, laterVars>>

\* sendEvent(name, data) with a usable name from line 191 to the await of
\* line 192, when window.VISIT_ID is visit0 and generateId() has produced
\* gen0 ids, added to the calls under way of p
PlStart(data, p) ==
    LET visit == VisitIdAfter(VISIT_ID, genCount)
        gen1 == GenAfterVisitId(VISIT_ID, genCount)
        r == GetUserId(cookieCache, documentCookie, gen1, fingerprintEnabled, fpAgent)
    IN  /\ Len(p.flight) < MaxInFlight
        /\ Len(p.flight) + p.count < MaxPayloads
        /\ r.gen <= MaxGen
        /\ VISIT_ID' = visit
        /\ genCount' = r.gen
        /\ cookieCache' = r.cache
        /\ documentCookie' = r.doc
        /\ firstResolution' = FirstResolutionAfter(firstResolution, r.ret, r.via)
        /\ pl' = [p EXCEPT
                     !.flight = Append(@, [pc |-> "await_uid", data |-> data,
                                           visitId |-> visit, cid |-> r.ret,
                                           aid |-> Undefined]),
                     !.made = @ + (gen1 - genCount),
                     !.event = NoPayload]

\* init({url}) up to the await of line 126
PlInitCall ==
    /\ pl.started < MaxPayloadInits
    /\ StopPassiveHeartbeat
    /\ BASE_URL' = "h"
    /\ fingerprintEnabled' = FALSE
    /\ initAccepted' = TRUE
    /\ EnsureCookie
    /\ pl' = [pl EXCEPT !.begun = @ + 1, !.started = @ + 1, !.event = NoPayload]
    /\ UNCHANGED <<plFrame, VISIT_ID, routeInitialized, serverCid>>

\* init() lines 130-135: the first setupRouteTracking fixes the visit id
\* (routeTracker.js:57) and reports the page with sendEvent("page_visit",
\* trackingData), trackingData being a plain object (routeTracker.js:80, 33)
PlInitSetup ==
    /\ pl.begun > 0
    /\ routeInitialized' = TRUE
    /\ IF routeInitialized
       THEN /\ pl' = [pl EXCEPT !.begun = @ - 1, !.armed = @ + 1, !.event = NoPayload]
            /\ UNCHANGED <<VISIT_ID, genCount, cookieCache, documentCookie,
                           firstResolution>>
       ELSE PlStart(Data("object", {"x"}, Undefined),
                    [pl EXCEPT !.begun = @ - 1, !.armed = @ + 1])
    /\ UNCHANGED <<plFrame, BASE_URL, fingerprintEnabled, initAccepted, timers,
                   heartbeatInterval, serverCid>>

\* init() lines 137-140: the heartbeat is started
PlInitStart ==
    /\ pl.armed > 0
    /\ pl' = [pl EXCEPT !.armed = @ - 1, !.event = NoPayload]
    /\ timers' = TimersAfterStart(timers, heartbeatInterval)
    /\ heartbeatInterval' = HandleAfterStart(timers, heartbeatInterval)
    /\ UNCHANGED <<plFrame, BASE_URL, fingerprintEnabled, initAccepted, VISIT_ID,
                   genCount, cookieCache, documentCookie, firstResolution,
                   routeInitialized, serverCid>>

\* the page or a tracker calls sendEvent(name, data) with a usable name
PlSendEvent(data) ==
    /\ ~NotInitialized(BASE_URL)
    /\ PlStart(data, pl)
    /\ UNCHANGED <<plFrame, BASE_URL, fingerprintEnabled, initAccepted, timers,
                   heartbeatInterval, routeInitialized, serverCid>>

\* the timer callback finds the last event old enough:
\* sendEvent("visit_duration_update"), line 69
PlTick ==
    /\ timers # {}
    /\ PlStart(Data("undefined", {}, Undefined), pl)
    /\ UNCHANGED <<plFrame, BASE_URL, fingerprintEnabled, initAccepted, timers,
                   heartbeatInterval, routeInitialized, serverCid>>

\* a sendEvent call from its await to its fetch: lines 193-229
PlResume(i) ==
    LET c == pl.flight[i]
        aid == GetCookie(cookieCache, documentCookie, AID_COOKIE_NAME)
        cache1 == CacheAfterGet(cookieCache, documentCookie, AID_COOKIE_NAME)
        cache2 == CacheAfterGet(cache1, documentCookie, ENFORCE_IP_COOKIE_NAME)
        body == Stringify(EventData(c.data, c.visitId))
    IN  /\ i \in 1..Len(pl.flight)
        /\ c.pc = "await_uid"
        /\ cookieCache' = cache2
        /\ pl' = [pl EXCEPT !.flight[i].pc = "fetch", !.flight[i].aid = aid,
                            !.sent = @ \cup {body.visitId},
                            !.count = @ + 1,
                            !.event = [data |-> c.data, visitId |-> c.visitId,
                                       body |-> body]]
        /\ UNCHANGED <<plFrame, BASE_URL, fingerprintEnabled, initAccepted, timers,
                       heartbeatInterval, routeInitialized, serverCid, VISIT_ID,
                       genCount, documentCookie, firstResolution>>

\* the answers to a sendEvent request here: none, one that does not parse,
\* and bodies with and without ok, cid and aid
PlResponses ==
    {Response("neterr", FALSE, Undefined, Undefined, Undefined),
     Response("badjson", TRUE, Undefined, Undefined, Undefined),
     Response("json", TRUE, TrueValue, Undefined, Undefined),
     Response("json", TRUE, TrueValue, "c1", Undefined),
     Response("json", TRUE, Undefined, "c2", "a1"),
     Response("json", TRUE, FalseValue, "c2", "a1")}

\* a sendEvent call from its fetch to its end: lines 230-249
PlRespond(i, r) ==
    LET c == pl.flight[i]
        good == SendEventResult(r) = "fulfilled"
        wcid == good /\ SendEventWritesCid(r, c.cid)
        waid == good /\ SendEventWritesAid(r, c.aid)
        cache1 == IF wcid THEN SetCookieCache(cookieCache, CID_COOKIE_NAME, r.cid)
                  ELSE cookieCache
        doc1 == IF wcid THEN SetCookieDoc(documentCookie, CID_COOKIE_NAME, r.cid)
                ELSE documentCookie
    IN  /\ i \in 1..Len(pl.flight)
        /\ c.pc = "fetch"
        /\ cookieCache' = IF waid THEN SetCookieCache(cache1, AID_COOKIE_NAME, r.aid)
                          ELSE cache1
        /\ documentCookie' = IF waid THEN SetCookieDoc(doc1, AID_COOKIE_NAME, r.aid)
                             ELSE doc1
        /\ serverCid' = (serverCid \/ Truthy(r.cid))
        /\ pl' = [pl EXCEPT !.flight = RemoveAt(@, i), !.event = NoPayload]
        /\ UNCHANGED <<plFrame, BASE_URL, fingerprintEnabled, initAccepted, timers,
                       heartbeatInterval, routeInitialized, VISIT_ID, genCount,
                       firstResolution>>

(***************************************************************************)
(* The queries: getEvents, trackerCore.js:258-326, and getEvent, 334-398.  *)
(* A filter is the set of its keys.  An answer is kind and httpOk as in    *)
(* Response, and for a body that parses to an object: what its value field *)
(* is (vtype), the keys Object.keys finds in it, and its own value field.  *)
(***************************************************************************)
Filters == {{}, {"uri"}, {"uri", "source"}}

\* getEvents' arguments: limit and offset may be left out
QueryArgs ==
    [name : QueryNames, limit : {Undefined, ZeroValue, NumberValue},
     offset : {Undefined, NumberValue}, filter : Filters]

\* Number.prototype.toString
NumberToString(n) == IF n = ZeroValue THEN "0" ELSE "42"

\* the query of lines 258 and 279-288; filter holds the filter parameter,
\* if there is one
Params(a) ==
    [name |-> a.name,
     limit |-> IF a.limit = Undefined THEN "11" ELSE NumberToString(a.limit),
     offset |-> IF a.offset = Undefined THEN "0" ELSE NumberToString(a.offset),
     filter |-> IF Cardinality(a.filter) > 1 THEN {[json |-> a.filter]} ELSE {}]

Answer(kind, httpOk, vtype, keys, inner) ==
    [kind |-> kind, httpOk |-> httpOk, vtype |-> vtype, keys |-> keys,
     inner |-> inner]

NoAnswer == Answer("-", FALSE, "absent", {}, Undefined)

\* no answer, a body that does not parse, null, bodies without a value,
\* with a scalar, an empty string, null and a two-element list as value,
\* and with objects of every set of keys among value, visitId, x and y
Answers ==
    {Answer("neterr", FALSE, "absent", {}, Undefined),
     Answer("badjson", TRUE, "absent", {}, Undefined),
     Answer("json", FALSE, "object", {"value", "visitId"}, "v"),
     Answer("nullbody", TRUE, "absent", {}, Undefined),
     Answer("json", TRUE, "absent", {}, Undefined),
     Answer("json", TRUE, "string", {}, Undefined),
     Answer("json", TRUE, "empty string", {}, Undefined),
     Answer("json", TRUE, "null", {}, Undefined),
     Answer("json", TRUE, "array", {"0", "1"}, Undefined)}
    \cup {Answer("json", TRUE, "object", k, IF "value" \in k THEN i ELSE Undefined) :
              k \in SUBSET {"value", "visitId", "x", "y"}, i \in {"v", ""}}

\* responseJson.value && typeof responseJson.value === "object"
HasObjectValue(r) == r.kind = "json" /\ r.vtype \in {"object", "array"}

\* getEvent's result with the test of the number of keys left out
ProcessedAnyCount(r) ==
    IF HasObjectValue(r) /\ "value" \in r.keys /\ "visitId" \in r.keys
    THEN [whole |-> FALSE, inner |-> r.inner, body |-> NoAnswer]
    ELSE [whole |-> TRUE, inner |-> Undefined, body |-> r]

\* processedResponse, lines 372-386: the body, or its value's value
Processed(r) ==
    IF HasObjectValue(r) /\ Cardinality(r.keys) = 2
           /\ "value" \in r.keys /\ "visitId" \in r.keys
    THEN [whole |-> FALSE, inner |-> r.inner, body |-> NoAnswer]
    ELSE [whole |-> TRUE, inner |-> Undefined, body |-> r]

\* q: the call under way (pc, op, args, callback) and, history, how the
\* last call went: the query it sent, the answer, how it settled, how often
\* and with what the callback was called, and what it returned
NoQueries ==
    q = [pc |-> "idle", op |-> "-", args |-> {}, callback |-> "none", sent |-> {},
         resp |-> NoAnswer, result |-> "-", callbacks |-> 0, carg |-> {}, ret |-> {}]

qFrame == <<fingerprintEnabled, heartbeatInterval, timers, fpAgent, fpPromise,
            VISIT_ID, routeInitialized, inits, calls, lastEvent, serverCid,
            BASE_URL, initAccepted, hbVars, pzVars, pl, re, tr, dt, ck, rt>>

\* getEvents(a, a.filter) to its fetch, lines 259-311, or getEvent({name},
\* callback) to its fetch, lines 335-363
QueryCall(op, a, callback) ==
    LET r == GetUserId(cookieCache, documentCookie, genCount,
                       fingerprintEnabled, fpAgent)
        cache1 == CacheAfterGet(r.cache, r.doc, AID_COOKIE_NAME)
        cache2 == CacheAfterGet(cache1, r.doc, ENFORCE_IP_COOKIE_NAME)
        error == EarlyError(op, a.name, BASE_URL)
        call == [pc |-> "idle", op |-> op, args |-> {a}, callback |-> callback,
                 sent |-> {}, resp |-> NoAnswer, result |-> error, callbacks |-> 0,
                 carg |-> {}, ret |-> {}]
    IN  /\ q.pc = "idle"
        /\ IF error # "-"
           THEN /\ q' = call
                /\ UNCHANGED <<cookieCache, documentCookie, genCount, firstResolution>>
           ELSE /\ r.gen <= MaxGen
                /\ q' = [call EXCEPT !.pc = "fetch",
                                     !.sent = IF op = "getEvents" THEN {Params(a)}
                                              ELSE {}]
                /\ cookieCache' = cache2
                /\ documentCookie' = r.doc
                /\ genCount' = r.gen
                /\ firstResolution' = FirstResolutionAfter(firstResolution, r.ret, r.via)
        /\ UNCHANGED qFrame

\* the call from its fetch to its end: getEvents 312-325, getEvent 365-397
QueryRespond(r) ==
    LET good == QueryResult(r) = "fulfilled"
        called == q.op = "getEvent" /\ good /\ q.callback # "none"
        value == IF q.op = "getEvent" THEN Processed(r)
                 ELSE [whole |-> TRUE, inner |-> Undefined, body |-> r]
    IN  /\ q.pc = "fetch"
        /\ q' = [q EXCEPT !.pc = "idle", !.resp = r,
                          !.result = IF ~good THEN QueryResult(r)
                                     ELSE IF called /\ q.callback = "throws"
                                     THEN "CallbackError" ELSE "fulfilled",
                          !.callbacks = IF called THEN 1 ELSE 0,
                          !.carg = IF called THEN {value} ELSE {},
                          !.ret = IF good /\ ~(called /\ q.callback = "throws")
                                  THEN {value} ELSE {}]
        /\ UNCHANGED <<qFrame, cookieCache, documentCookie, genCount, firstResolution>>

(***************************************************************************)
(* The round trip of an event value: the body sendEvent posts (lines 196-  *)
(* 209 and 228) is stored by the collector as it arrives and is the value  *)
(* field of the answer to the single-event lookup that getEvent processes  *)
(* (371-386).  rt.body is the value stored, rt.data the data sendEvent had *)
(* been called with.                                                       *)
(***************************************************************************)
NoStore == [has |-> FALSE, data |-> NoData, body |-> NoPayload.body]

\* the data of the round trips: DataValues and the maps that have a field
\* named value
RoundTripData ==
    DataValues \cup {Data("object", {"value"}, Undefined),
                     Data("object", {"value", "x"}, Undefined)}

\* what a map's field named value holds
FieldValue == Data("string", {}, Undefined)

\* Object.keys of the value stored
KeysOf(body) ==
    body.fields
    \cup (IF body.value # NoData THEN {"value"} ELSE {})
    \cup (IF body.visitId # Undefined THEN {"visitId"} ELSE {})

\* the value field of the value stored
ValueOf(body) ==
    IF body.value # NoData THEN body.value
    ELSE IF "value" \in body.fields THEN FieldValue
    ELSE Undefined

\* the answer to GET /event/<name> of a collector that returns the value
\* stored unchanged
StoredAnswer(body) == Answer("json", TRUE, "object", KeysOf(body), ValueOf(body))

rtFrame == <<BASE_URL, fingerprintEnabled, heartbeatInterval, timers, fpAgent,
             fpPromise, cookieCache, documentCookie, VISIT_ID, genCount,
             routeInitialized, inits, calls, lastEvent, initAccepted,
             firstResolution, serverCid, hbVars, pzVars, pl, q, re, tr, dt, ck>>

\* the request sendEvent has just issued reaches the collector
RtStore ==
    /\ pl.event # NoPayload
    /\ rt # [has |-> TRUE, data |-> pl.event.data, body |-> pl.event.body]
    /\ rt' = [has |-> TRUE, data |-> pl.event.data, body |-> pl.event.body]
    /\ UNCHANGED rtFrame

\* the collector answers getEvent with the value it has stored
RtAnswer ==
    /\ rt.has
    /\ QueryRespond(StoredAnswer(rt.body))

(***************************************************************************)
(* The instrumentation init() arms at lines 126-135: setupRouteTracking,   *)
(* routeTracker.js:41-101, setupClickTracking, clickTracker.js:110-198,    *)
(* setupFormTracking, formTracker.js:98-201, and setupInputTracking,       *)
(* inputTracker.js:32-67.  The page reaches them through init() only:      *)
(* index.js exposes init, sendEvent, getEvents, getEvent and personalize,  *)
(* and none of the cleanup functions.  The actions follow init() as the    *)
(* heartbeat's do, with the guards and the registrations added; the visit  *)
(* id setupRouteTracking makes is in the actions of the identity.          *)
(***************************************************************************)
NavigationKinds == {"pushState", "replaceState", "popstate"}

NoNavigation == [kind |-> "-", visits |-> 0]

\* the trackers' module state when the scripts have been evaluated, on a
\* browser with or without the History API and touch events
NoTracking(history, touch) ==
    [history |-> history, touch |-> touch,
     click |-> FALSE, form |-> FALSE, input |-> FALSE,
     pushState |-> 0, replaceState |-> 0, popstate |-> 0, loaded |-> 0,
     docClick |-> 0, touchPair |-> 0, submit |-> 0, formClick |-> 0,
     focusout |-> 0, setups |-> 0, nav |-> NoNavigation]

\* the guard alone in a setup function that ran before
SetupRunsAlways(initialized) == TRUE

\* `if (_initialized) return`, routeTracker.js:42, clickTracker.js:111,
\* formTracker.js:99, inputTracker.js:33
SetupRuns(initialized) == ~initialized

\* addEventListener with a listener the target may hold already: the same
\* function for the same event is kept once, a new closure is added
AddEventListener(n, closure) == IF closure \/ n = 0 THEN n + 1 ELSE n

\* init() from its first await to the await of line 126, and the four
\* setup functions of lines 130-133
TrInitSetup ==
    LET route == SetupRuns(routeInitialized) /\ tr.history
        click == SetupRuns(tr.click)
        form == SetupRuns(tr.form)
        input == SetupRuns(tr.input)
        visit == route /\ ~docLoading
    IN  /\ hbInits.stopped > 0
        /\ tr.setups < MaxSetups
        /\ visit => inflight.other < MaxInFlight
        /\ hbInits' = [stopped |-> hbInits.stopped - 1, armed |-> hbInits.armed + 1]
        /\ routeInitialized' = (routeInitialized \/ route)
        /\ inflight' = IF visit THEN [inflight EXCEPT !.other = @ + 1] ELSE inflight
        /\ tr' = [tr EXCEPT
                    !.pushState = IF route THEN @ + 1 ELSE @,
                    !.replaceState = IF route THEN @ + 1 ELSE @,
                    !.popstate = IF route THEN AddEventListener(@, FALSE) ELSE @,
                    !.loaded = IF route /\ docLoading THEN AddEventListener(@, TRUE)
                               ELSE @,
                    !.click = TRUE,
                    !.docClick = IF click THEN AddEventListener(@, FALSE) ELSE @,
                    !.touchPair = IF click /\ tr.touch THEN AddEventListener(@, TRUE)
                                  ELSE @,
                    !.form = TRUE,
                    !.submit = IF form THEN AddEventListener(@, TRUE) ELSE @,
                    !.formClick = IF form THEN AddEventListener(@, TRUE) ELSE @,
                    !.input = TRUE,
                    !.focusout = IF input THEN AddEventListener(@, TRUE) ELSE @,
                    !.setups = @ + 1,
                    !.nav = NoNavigation]
        /\ tickEvent' = NoTick
        /\ UNCHANGED <<fingerprintEnabled, fpAgent, fpPromise, cookieCache,
                       documentCookie, VISIT_ID, genCount, inits, calls, lastEvent,
                       firstResolution, serverCid, build, pzVars, pl, q, re, dt, ck, rt,
                       BASE_URL, initAccepted, timers, heartbeatInterval, due,
                       isHeartbeatRunning, now, lastEventTimestamp,
                       lastHeartbeatTimestamp, lastCompleted, prevTick>>

\* what a step of the page leaves alone when it runs tracker callbacks only
trFrame == <<fingerprintEnabled, fpAgent, fpPromise, cookieCache, documentCookie,
             VISIT_ID, genCount, inits, calls, lastEvent, firstResolution,
             serverCid, build, dom, listeners, pz, pzCalls, pzEvent, pl, q, re, dt, ck, rt,
             BASE_URL, initAccepted, routeInitialized, timers, heartbeatInterval,
             due, isHeartbeatRunning, now, lastEventTimestamp,
             lastHeartbeatTimestamp, hbInits, lastCompleted, prevTick>>

\* the page calls history.pushState or history.replaceState, or the user
\* goes back: every wrapper around the function, routeTracker.js:59-69, or
\* every popstate listener, lines 71-72, calls _trackRouteChange, which
\* sends one page_visit, line 33
Navigate(kind) ==
    /\ tr.history
    /\ inflight.other + tr[kind] <= MaxInFlight
    /\ inflight' = [inflight EXCEPT !.other = @ + tr[kind]]
    /\ tr' = [tr EXCEPT !.nav = [kind |-> kind, visits |-> tr[kind]]]
    /\ tickEvent' = NoTick
    /\ UNCHANGED <<trFrame, docLoading>>

\* the document has been parsed: the listeners of routeTracker.js:76-78
\* report the page
TrDomContentLoaded ==
    /\ docLoading
    /\ inflight.other + tr.loaded <= MaxInFlight
    /\ docLoading' = FALSE
    /\ inflight' = [inflight EXCEPT !.other = @ + tr.loaded]
    /\ tr' = [tr EXCEPT !.nav = NoNavigation]
    /\ tickEvent' = NoTick
    /\ UNCHANGED trFrame

(***************************************************************************)
(* The heartbeat of unnamed/part_002 on a Next.js page: the branch of      *)
(* startPassiveHeartbeat at lines 69-102, which counts the heartbeats of   *)
(* the timer and compares the clock with the slot of the next one.  In     *)
(* this section the clock counts in units of 1000 ms, so that the          *)
(* tolerance is one unit and stays below the interval, as 1000 is below    *)
(* 15000 in the code.  Date.now() is the wall clock: it can be set back    *)
(* while the timer goes on, and it runs on while the page is suspended     *)
(* and no callback runs; the callback of an interval timer that came due   *)
(* during a suspension runs once when the page resumes.                    *)
(***************************************************************************)
\* the 1000 of `expectedTime - 1000`, line 84
Tolerance == 1

NoDrift == [start |-> 0, count |-> 0, sends |-> 0, suspended |-> FALSE, backs |-> 0]

\* a callback that makes up for every slot that has passed
HeartbeatsDueCatchUp(start, count, t) ==
    IF t + Tolerance >= start + (count + 1) * IntervalMs
    THEN ((t + Tolerance - start) \div IntervalMs) - count
    ELSE 0

\* how many heartbeats the callback sends when the guard is clear:
\* part_002:79-88
HeartbeatsDue(start, count, t) ==
    IF t + Tolerance >= start + (count + 1) * IntervalMs THEN 1 ELSE 0

dtFrame == <<fingerprintEnabled, fpAgent, fpPromise, cookieCache, documentCookie,
             VISIT_ID, genCount, inits, calls, lastEvent, firstResolution,
             serverCid, build, pzVars, pl, q, re, tr, ck, rt, BASE_URL, initAccepted,
             routeInitialized, lastEventTimestamp, lastCompleted>>

\* init() lines 187-189 on a Next.js page: the timestamps are reset and
\* startPassiveHeartbeat, lines 63-102, sets the timer with its start time
\* and its count
DtInitStart ==
    /\ hbInits.armed > 0
    /\ hbInits' = [hbInits EXCEPT !.armed = @ - 1]
    /\ lastEventTimestamp' = now
    /\ lastHeartbeatTimestamp' = now
    /\ timers' = TimersAfterStart(timers, heartbeatInterval)
    /\ heartbeatInterval' = HandleAfterStart(timers, heartbeatInterval)
    /\ due' = [h \in TimersAfterStart(timers, heartbeatInterval) |->
                  IF h \in TimersAfterClear(timers, heartbeatInterval)
                  THEN due[h] ELSE now + IntervalMs]
    /\ dt' = [NoDrift EXCEPT !.start = now, !.backs = dt.backs]
    /\ tickEvent' = NoTick
    /\ UNCHANGED <<fingerprintEnabled, fpAgent, fpPromise, cookieCache,
                   documentCookie, VISIT_ID, genCount, inits, calls, lastEvent,
                   firstResolution, serverCid, build, pzVars, pl, q, re, tr, ck, rt,
                   BASE_URL, initAccepted, routeInitialized, isHeartbeatRunning,
                   now, inflight, lastCompleted, prevTick>>

\* the timer held comes due, or has come due while the page was suspended,
\* and its callback runs: part_002:74-101
DtTick(h) ==
    LET n == IF isHeartbeatRunning THEN 0 ELSE HeartbeatsDue(dt.start, dt.count, now)
    IN  /\ h \in timers
        /\ due[h] <= now
        /\ inflight.heartbeat + n <= MaxInFlight
        /\ due' = [due EXCEPT ![h] = now + IntervalMs]
        /\ dt' = [dt EXCEPT !.count = @ + n, !.sends = n]
        /\ inflight' = [inflight EXCEPT !.heartbeat = @ + n]
        /\ isHeartbeatRunning' = (isHeartbeatRunning \/ n > 0)
        /\ tickEvent' = [at |-> now, ran |-> TRUE, sent |-> n > 0,
                         quiet |-> lastCompleted, prev |-> prevTick,
                         settled |-> "-"]
        /\ prevTick' = {now}
        /\ UNCHANGED <<dtFrame, timers, heartbeatInterval, now,
                       lastHeartbeatTimestamp, hbInits>>

\* a second passes; a timer that is due fires first
DtAdvance ==
    /\ now < MaxClock
    /\ \A h \in timers : due[h] > now
    /\ now' = now + 1
    /\ dt' = [dt EXCEPT !.sends = 0]
    /\ tickEvent' = NoTick
    /\ UNCHANGED <<dtFrame, timers, heartbeatInterval, due, isHeartbeatRunning,
                   lastHeartbeatTimestamp, inflight, hbInits, prevTick>>

\* the page is suspended for two intervals or more and resumes: the clock
\* has run on and no callback has run
DtSuspend(n) ==
    /\ n >= 2 * IntervalMs
    /\ now + n <= MaxClock
    /\ timers # {}
    /\ now' = now + n
    /\ dt' = [dt EXCEPT !.sends = 0, !.suspended = TRUE]
    /\ tickEvent' = NoTick
    /\ UNCHANGED <<dtFrame, timers, heartbeatInterval, due, isHeartbeatRunning,
                   lastHeartbeatTimestamp, inflight, hbInits, prevTick>>

\* the wall clock is set back by n seconds: the timers, which do not
\* follow it, come due n seconds earlier by it
DtClockBack(n) ==
    /\ dt.backs < MaxBack
    /\ now >= n
    /\ \A h \in timers : due[h] >= n
    /\ now' = now - n
    /\ due' = [h \in timers |-> due[h] - n]
    /\ dt' = [dt EXCEPT !.sends = 0, !.backs = @ + 1]
    /\ tickEvent' = NoTick
    /\ UNCHANGED <<dtFrame, timers, heartbeatInterval, isHeartbeatRunning,
                   lastHeartbeatTimestamp, inflight, hbInits, prevTick>>

(***************************************************************************)
(* The cookie module called directly: cookie.js:15-42, 56-101 and 109-120. *)
(* ck.written[name] is the value the last setCookie(name, value) that      *)
(* returned was given, ck.replaced[name] whether that call found another   *)
(* value cached, ck.op, ck.name and ck.result are the last call.           *)
(***************************************************************************)
NotWritten == "<not written>"

\* the values setCookie is called with: strings, the empty one included,
\* and one value that is not a string
WrittenValues == {"v1", "v2", "", Undefined}

NoCookieCalls ==
    [written |-> [n \in CookieNames |-> NotWritten],
     replaced |-> [n \in CookieNames |-> FALSE],
     op |-> "none", name |-> Null, result |-> Null]

ckFrame == <<BASE_URL, fingerprintEnabled, heartbeatInterval, timers, fpAgent,
             fpPromise, VISIT_ID, genCount, routeInitialized, inits, calls,
             lastEvent, initAccepted, firstResolution, serverCid, hbVars, pzVars,
             pl, q, re, tr, dt, rt>>

\* getCookie(name), cookie.js:15-42
CkGetCookie(name) ==
    /\ ck' = [ck EXCEPT !.op = "getCookie", !.name = name,
                        !.result = GetCookie(cookieCache, documentCookie, name)]
    /\ cookieCache' = CacheAfterGet(cookieCache, documentCookie, name)
    /\ UNCHANGED <<documentCookie, ckFrame>>

\* setCookie(name, value), cookie.js:56-101: a value that is not a string
\* throws before anything is written (57-59)
CkSetCookie(name, value) ==
    /\ IF TypeOf(value) # "string"
       THEN /\ ck' = [ck EXCEPT !.op = "setCookie", !.name = name,
                                !.result = "throws"]
            /\ UNCHANGED <<cookieCache, documentCookie>>
       ELSE /\ ck' = [ck EXCEPT !.op = "setCookie", !.name = name,
                                !.result = Undefined, !.written[name] = value,
                                !.replaced[name] =
                                    cookieCache[name] \notin {NotCached, value}]
            /\ cookieCache' = SetCookieCache(cookieCache, name, value)
            /\ documentCookie' = SetCookieDoc(documentCookie, name, value)
    /\ UNCHANGED ckFrame

\* deleteCookie(name), cookie.js:109-120: the cache entry is removed, then
\* setCookie(name, "", {days: -1}) caches the empty string and the jar drops
\* the cookie whose expiry is in the past
CkDeleteCookie(name) ==
    /\ ck' = [ck EXCEPT !.op = "deleteCookie", !.name = name,
                        !.result = Undefined, !.written[name] = "",
                        !.replaced[name] = FALSE]
    /\ cookieCache' = SetCookieCache(cookieCache, name, "")
    /\ documentCookie' = SetCookieDoc(documentCookie, name, Null)
    /\ UNCHANGED ckFrame

\* the visitor clears the jar
CkClearJar ==
    /\ \E n \in CookieNames : documentCookie[n] # Null
    /\ documentCookie' = [n \in CookieNames |-> Null]
    /\ ck' = [ck EXCEPT !.op = "cleared", !.name = Null, !.result = Null]
    /\ UNCHANGED <<cookieCache, ckFrame>>

(***************************************************************************)
(* The page load: the module state of trackerCore.js:29-33, an empty       *)
(* cookie cache, and whatever cookies earlier visits left                  *)
(***************************************************************************)
Cookies(cid, aid, ip) ==
    [n \in CookieNames |->
        CASE n = CID_COOKIE_NAME -> cid
          [] n = AID_COOKIE_NAME -> aid
          [] OTHER -> ip]

\* the state of a page on which no query is made
LaterLoaded ==
    /\ NoQueries
    /\ re = [returned |-> 0, fpFailed |-> FALSE]
    /\ tr = NoTracking(TRUE, FALSE)
    /\ dt = NoDrift
    /\ ck = NoCookieCalls
    /\ rt = NoStore

\* a first visit, a returning visitor the collector has given an aid and an
\* enforced IP, and a cid cookie with an empty value
InitialCookies ==
    {Cookies(Null, Null, Null), Cookies("c1", "a0", "ip1"), Cookies("", "a0", Null)}

Init ==
    /\ BASE_URL = ""
    /\ fingerprintEnabled = FALSE
    /\ heartbeatInterval = NoTimer
    /\ timers = {}
    /\ fpAgent = Null
    /\ fpPromise = Null
    /\ cookieCache = [n \in CookieNames |-> NotCached]
    /\ documentCookie \in InitialCookies
    /\ VISIT_ID = Undefined
    /\ genCount = 0
    /\ routeInitialized = FALSE
    /\ inits = [i \in InitSlots |-> IdleInit]
    /\ calls = [s \in CallSlots |-> IdleCall]
    /\ lastEvent = NoEvent
    /\ initAccepted = FALSE
    /\ firstResolution = NoResolution
    /\ serverCid = FALSE
    /\ build = "trackerCore"
    /\ HeartbeatLoaded
    /\ NoDocument
    /\ NoPayloads
    /\ LaterLoaded

Next ==
    \/ \E i \in InitSlots, options \in InitOptions : InitCall(i, options)
    \/ \E loaded \in BOOLEAN : FpSettle(loaded)
    \/ \E i \in InitSlots : InitResume(i)
    \/ \E i \in InitSlots : InitSetup(i)
    \/ \E i \in InitSlots : InitStart(i)
    \/ \E c \in PageCalls : Call(c[1], c[2])
    \/ \E s \in CallSlots : Resume(s)
    \/ \E s \in CallSlots, r \in Responses : Respond(s, r)
    \/ HeartbeatTick
    \/ ClearCookies

Spec == Init /\ [][Next]_vars

(***************************************************************************)
(* The runs of the heartbeat, for either tracker core                      *)
(***************************************************************************)
\* the identity and delivery state of a first visit's page load
CoreLoaded ==
    /\ BASE_URL = ""
    /\ fingerprintEnabled = FALSE
    /\ heartbeatInterval = NoTimer
    /\ timers = {}
    /\ fpAgent = Null
    /\ fpPromise = Null
    /\ cookieCache = [n \in CookieNames |-> NotCached]
    /\ documentCookie = Cookies(Null, Null, Null)
    /\ VISIT_ID = Undefined
    /\ genCount = 0
    /\ routeInitialized = FALSE
    /\ inits = [i \in InitSlots |-> IdleInit]
    /\ calls = [s \in CallSlots |-> IdleCall]
    /\ lastEvent = NoEvent
    /\ initAccepted = FALSE
    /\ firstResolution = NoResolution
    /\ serverCid = FALSE

HeartbeatInit ==
    /\ CoreLoaded
    /\ build \in Builds
    /\ HeartbeatLoaded
    /\ NoDocument
    /\ NoPayloads
    /\ LaterLoaded

HeartbeatNext ==
    \/ HbInitCall
    \/ HbInitSetup
    \/ HbInitStart
    \/ HbPageStop
    \/ HbSendEvent
    \/ \E h \in timers : HbTick(h)
    \/ \E kind \in {"heartbeat", "other"}, success \in BOOLEAN : HbSettle(kind, success)
    \/ HbAdvance

SpecHeartbeat == HeartbeatInit /\ [][HeartbeatNext]_vars

(***************************************************************************)
(* The runs of personalize() on a document                                 *)
(***************************************************************************)
PersonalizeInit ==
    /\ CoreLoaded
    /\ build = "trackerCore"
    /\ HeartbeatLoaded
    /\ dom \in [Elements -> InitialElements]
    /\ docLoading \in BOOLEAN
    /\ listeners = <<>>
    /\ pz = IdlePz
    /\ pzCalls = 0
    /\ pzEvent = NoPzEvent(dom)
    /\ NoPayloads
    /\ LaterLoaded

PersonalizeNext ==
    \/ PzInitCall
    \/ \E callback \in Callbacks : PzCall(callback)
    \/ \E r \in PzResponses : PzRespond(r)
    \/ DomContentLoaded

SpecPersonalize == PersonalizeInit /\ [][PersonalizeNext]_vars

(***************************************************************************)
(* The runs of sendEvent with its data, under repeated init()              *)
(***************************************************************************)
PayloadInit ==
    /\ CoreLoaded
    /\ build = "trackerCore"
    /\ HeartbeatLoaded
    /\ NoDocument
    /\ NoPayloads
    /\ LaterLoaded

PayloadNext ==
    \/ PlInitCall
    \/ PlInitSetup
    \/ PlInitStart
    \/ \E data \in DataValues : PlSendEvent(data)
    \/ PlTick
    \/ \E i \in 1..MaxInFlight : PlResume(i)
    \/ \E i \in 1..MaxInFlight, r \in PlResponses : PlRespond(i, r)

SpecPayload == PayloadInit /\ [][PayloadNext]_vars

(***************************************************************************)
(* The runs of init() called again after it has returned, with and without *)
(* the fingerprint fallback, while FingerprintJS.load() fails or succeeds  *)
(***************************************************************************)
\* an init() call has returned; the page may call init() again
InitReturn(i) ==
    /\ inits[i].pc = "done"
    /\ re.returned < MaxReturned
    /\ inits' = [inits EXCEPT ![i] = IdleInit]
    /\ re' = [returned |-> re.returned + 1,
              fpFailed |-> (re.fpFailed \/ inits[i].fp = "fail")]
    /\ lastEvent' = NoEvent
    /\ UNCHANGED <<BASE_URL, fingerprintEnabled, heartbeatInterval, timers, fpAgent,
                   fpPromise, cookieCache, documentCookie, VISIT_ID, genCount,
                   routeInitialized, calls, initAccepted, firstResolution,
                   serverCid, hbVars, pzVars, pl, q, tr, dt, ck, rt>>

ReinitNext ==
    \/ \E i \in InitSlots, f \in BOOLEAN :
           InitCall(i, [url |-> "h", fingerprintFallback |-> f])
    \/ \E loaded \in BOOLEAN : FpSettle(loaded)
    \/ \E i \in InitSlots : InitResume(i)
    \/ \E i \in InitSlots : InitSetup(i)
    \/ \E i \in InitSlots : InitStart(i)
    \/ \E i \in InitSlots : InitReturn(i)
    \/ \E op \in {"sendEvent", "personalize"} : Call(op, "evt")
    \/ \E s \in CallSlots : Resume(s)
    \/ \E s \in CallSlots, r \in PlResponses : Respond(s, r)
    \/ ClearCookies

SpecReinit == Init /\ [][ReinitNext]_vars

(***************************************************************************)
(* The runs of getEvents and getEvent                                      *)
(***************************************************************************)
QueryInit ==
    /\ CoreLoaded
    /\ build = "trackerCore"
    /\ HeartbeatLoaded
    /\ NoDocument
    /\ NoPayloads
    /\ LaterLoaded

QueryNext ==
    \/ PzInitCall
    \/ \E a \in QueryArgs : QueryCall("getEvents", a, "none")
    \/ \E callback \in Callbacks :
           QueryCall("getEvent", [name |-> "evt", limit |-> Undefined,
                                  offset |-> Undefined, filter |-> {}], callback)
    \/ \E r \in Answers : QueryRespond(r)

SpecQuery == QueryInit /\ [][QueryNext]_vars

(***************************************************************************)
(* The runs of init() called again and again on a page the user navigates, *)
(* on a loading or a loaded document                                       *)
(***************************************************************************)
InstrumentInit ==
    /\ CoreLoaded
    /\ build = "trackerCore"
    /\ HeartbeatLoaded
    /\ dom = [e \in Elements |-> Element(NoAttribute, "")]
    /\ docLoading \in BOOLEAN
    /\ listeners = <<>>
    /\ pz = IdlePz
    /\ pzCalls = 0
    /\ pzEvent = NoPzEvent(dom)
    /\ NoPayloads
    /\ NoQueries
    /\ re = [returned |-> 0, fpFailed |-> FALSE]
    /\ \E history \in BOOLEAN, touch \in BOOLEAN : tr = NoTracking(history, touch)
    /\ dt = NoDrift
    /\ ck = NoCookieCalls
    /\ rt = NoStore

InstrumentNext ==
    \/ HbInitCall
    \/ TrInitSetup
    \/ HbInitStart
    \/ \E kind \in NavigationKinds : Navigate(kind)
    \/ TrDomContentLoaded
    \/ \E success \in BOOLEAN : HbSettle("other", success)

SpecInstrument == InstrumentInit /\ [][InstrumentNext]_vars

(***************************************************************************)
(* The runs of init() and sendEvent while the clock goes on                *)
(***************************************************************************)
\* 100 ms pass
ClockTick ==
    /\ now < MaxStamp
    /\ now' = now + 1
    /\ lastEvent' = NoEvent
    /\ UNCHANGED <<BASE_URL, fingerprintEnabled, heartbeatInterval, timers, fpAgent,
                   fpPromise, cookieCache, documentCookie, VISIT_ID, genCount,
                   routeInitialized, inits, calls, initAccepted, firstResolution,
                   serverCid, build, lastEventTimestamp, lastHeartbeatTimestamp,
                   isHeartbeatRunning, due, inflight, hbInits, tickEvent,
                   lastCompleted, prevTick, pzVars, pl, laterVars>>

StampNext ==
    \/ \E i \in InitSlots : InitCall(i, [url |-> "h", fingerprintFallback |-> FALSE])
    \/ \E i \in InitSlots : InitSetup(i)
    \/ \E i \in InitSlots : InitStart(i)
    \/ \E n \in EventNames : Call("sendEvent", n)
    \/ \E s \in CallSlots : Resume(s)
    \/ \E s \in CallSlots, r \in Responses : Respond(s, r)
    \/ ClockTick

SpecStamp == Init /\ [][StampNext]_vars

(***************************************************************************)
(* The runs of the heartbeat of unnamed/part_002 on a Next.js page         *)
(***************************************************************************)
DriftInit ==
    /\ CoreLoaded
    /\ build = "part_002"
    /\ HeartbeatLoaded
    /\ NoDocument
    /\ NoPayloads
    /\ LaterLoaded

DriftNext ==
    \/ HbInitCall
    \/ HbInitSetup
    \/ DtInitStart
    \/ \E h \in timers : DtTick(h)
    \/ \E success \in BOOLEAN : HbSettle("heartbeat", success)
    \/ DtAdvance
    \/ \E n \in 1..MaxClock : DtSuspend(n)
    \/ \E n \in 1..(Tolerance + 1) : DtClockBack(n)

SpecDrift == DriftInit /\ [][DriftNext]_vars

(***************************************************************************)
(* The runs of personalize(callback) as far as the identity goes: the      *)
(* cookies written at lines 448-455 and the callback called at 458-461.    *)
(* The argument of a personalize call is its callback.                     *)
(***************************************************************************)
\* the cookies written only when the callback has returned
PzReachesWritesAfterCallback(callback, r) ==
    PersonalizeResult(r) = "fulfilled" /\ callback # "throws"

\* personalize() gets as far as lines 448-455: the request was answered
\* with a success status and a body that parses to an object
PzReachesWrites(callback, r) == PersonalizeResult(r) = "fulfilled"

\* personalize(callback) from its `await fetch(...)` to its end
PzIdRespond(s, r) ==
    LET c == calls[s]
        wcid == PzReachesWrites(c.arg, r) /\ PersonalizeWritesCid(r)
        waid == PzReachesWrites(c.arg, r) /\ PersonalizeWritesAid(r)
        cache1 == IF waid THEN SetCookieCache(cookieCache, AID_COOKIE_NAME, r.aid)
                  ELSE cookieCache
        doc1 == IF waid THEN SetCookieDoc(documentCookie, AID_COOKIE_NAME, r.aid)
                ELSE documentCookie
    IN  /\ c.pc = "fetch"
        /\ c.op = "personalize"
        /\ UNCHANGED sideVars
        /\ cookieCache' = IF wcid THEN SetCookieCache(cache1, CID_COOKIE_NAME, r.cid)
                          ELSE cache1
        /\ documentCookie' = IF wcid THEN SetCookieDoc(doc1, CID_COOKIE_NAME, r.cid)
                             ELSE doc1
        /\ calls' = [calls EXCEPT ![s] = DoneCall]
        /\ lastEvent' = Settled(c.op, c.arg, TRUE, c.cid, c.aid, r, PzResult(c.arg, r))
        /\ serverCid' = (serverCid \/ Truthy(r.cid))
        /\ UNCHANGED <<BASE_URL, fingerprintEnabled, heartbeatInterval, timers, fpAgent,
                       fpPromise, VISIT_ID, genCount, routeInitialized, inits,
                       initAccepted, firstResolution>>

PzIdNext ==
    \/ \E i \in InitSlots : InitCall(i, [url |-> "h", fingerprintFallback |-> FALSE])
    \/ \E callback \in Callbacks : Call("personalize", callback)
    \/ Call("sendEvent", "evt")
    \/ \E s \in CallSlots : Resume(s)
    \/ \E s \in CallSlots, r \in Responses :
           calls[s].op = "sendEvent" /\ Respond(s, r)
    \/ \E s \in CallSlots, r \in Responses : PzIdRespond(s, r)
    \/ ClearCookies

SpecPzIdentity == Init /\ [][PzIdNext]_vars

(***************************************************************************)
(* The runs of getCookie, setCookie and deleteCookie on any names          *)
(***************************************************************************)
CookieNext ==
    \/ \E n \in CookieNames : CkGetCookie(n)
    \/ \E n \in CookieNames, v \in WrittenValues : CkSetCookie(n, v)
    \/ \E n \in CookieNames : CkDeleteCookie(n)
    \/ CkClearJar

SpecCookie == Init /\ [][CookieNext]_vars

(***************************************************************************)
(* The runs of the heartbeat on a quiet page: no event is sent but the     *)
(* page_visit of the first init(), which settles before the heartbeat is   *)
(* started; every heartbeat succeeds, and does so less than an interval    *)
(* after the tick that sent it; init() is not called while one is under    *)
(* way.                                                                    *)
(***************************************************************************)
SteadyAdvance ==
    /\ inflight.heartbeat > 0 => \A t \in prevTick : now + 1 - t < IntervalMs
    /\ HbAdvance

SteadyNext ==
    \/ inflight.heartbeat = 0 /\ HbInitCall
    \/ HbInitSetup
    \/ inflight.other = 0 /\ HbInitStart
    \/ \E h \in timers : HbTick(h)
    \/ HbSettle("heartbeat", TRUE)
    \/ \E success \in BOOLEAN : HbSettle("other", success)
    \/ SteadyAdvance

SpecSteady == HeartbeatInit /\ [][SteadyNext]_vars

(***************************************************************************)
(* The runs of sendEvent with its data and of getEvent against a collector *)
(* that stores and returns the event value unchanged                       *)
(***************************************************************************)
RoundTripNext ==
    \/ PlInitCall
    \/ PlInitSetup
    \/ PlInitStart
    \/ \E data \in RoundTripData : PlSendEvent(data)
    \/ \E i \in 1..MaxInFlight : PlResume(i)
    \/ \E i \in 1..MaxInFlight :
           PlRespond(i, Response("json", TRUE, TrueValue, Undefined, Undefined))
    \/ RtStore
    \/ QueryCall("getEvent", [name |-> "evt", limit |-> Undefined,
                              offset |-> Undefined, filter |-> {}], "none")
    \/ RtAnswer

SpecRoundTrip == PayloadInit /\ [][RoundTripNext]_vars

(***************************************************************************)
(* The runs of the four requests while the IP-enforcement cookie is made.  *)
(* The tracker only reads that cookie (trackerCore.js:194, 301, 355, 431): *)
(* it comes into document.cookie from a Set-Cookie header of the server or *)
(* from the page, at any time, and not through setCookie.                  *)
(***************************************************************************)
EnforcedIps == {"ip2"}

EnforceIp(ip) ==
    /\ documentCookie[ENFORCE_IP_COOKIE_NAME] = Null
    /\ documentCookie' = [documentCookie EXCEPT ![ENFORCE_IP_COOKIE_NAME] = ip]
    /\ lastEvent' = NoEvent
    /\ UNCHANGED <<BASE_URL, fingerprintEnabled, heartbeatInterval, timers, fpAgent,
                   fpPromise, cookieCache, VISIT_ID, genCount, routeInitialized,
                   inits, calls, initAccepted, firstResolution, serverCid, sideVars>>

HeadersNext ==
    \/ \E i \in InitSlots : InitCall(i, [url |-> "h", fingerprintFallback |-> FALSE])
    \/ \E i \in InitSlots : InitSetup(i)
    \/ \E i \in InitSlots : InitStart(i)
    \/ \E op \in ApiOps : Call(op, "evt")
    \/ \E s \in CallSlots : Resume(s)
    \/ \E s \in CallSlots, r \in PlResponses : Respond(s, r)
    \/ \E ip \in EnforcedIps : EnforceIp(ip)

SpecHeaders == Init /\ [][HeadersNext]_vars

(***************************************************************************)
(* Properties                                                              *)
(***************************************************************************)
CidHeld == GetCookie(cookieCache, documentCookie, CID_COOKIE_NAME)

\* C1: every request that sendEvent, getEvents, getEvent or personalize
\* issues carries a non-empty cid in its identity header, whatever the
\* cookies were and whether or not init() is still waiting for the
\* fingerprint; the request that has just been answered carried one too.
C1_RequestCarriesCid ==
    /\ \A s \in CallSlots :
          calls[s].pc = "fetch" =>
              /\ TypeOf(calls[s].headers.xcid) = "string"
              /\ calls[s].headers.xcid # ""
    /\ lastEvent.requested =>
          TypeOf(lastEvent.cid) = "string" /\ lastEvent.cid # ""

\* a request is out that was made while init() waits for the fingerprint,
\* by a page that came without a usable cid cookie
C1_Witness ==
    \E s \in CallSlots, i \in InitSlots :
        /\ calls[s].pc = "fetch"
        /\ calls[s].via # "cookie"
        /\ inits[i].pc = "await_fp"

\* C2: with no cid cookie held and the fingerprint fallback off, an
\* identity resolution (getUserId, or init's own at lines 118-123) generates
\* an id and puts it in the cookie; and once the first resolution of the
\* page load has generated an id, getUserId returns that id for as long as
\* no response has carried a cid.
C2_FirstIdPersists ==
    /\ (Falsy(CidHeld) /\ ~fingerprintEnabled) =>
          /\ UserId.via = "generated"
          /\ Truthy(UserId.ret)
          /\ UserId.doc[CID_COOKIE_NAME] = UserId.ret
          /\ UserId.cache[CID_COOKIE_NAME] = UserId.ret
    /\ Falsy(CidHeld) =>
          /\ Truthy(EnsureCookieDoc(cookieCache, documentCookie, genCount)[CID_COOKIE_NAME])
          /\ EnsureCookieCache(cookieCache, documentCookie, genCount)[CID_COOKIE_NAME]
                = EnsureCookieDoc(cookieCache, documentCookie, genCount)[CID_COOKIE_NAME]
    /\ (firstResolution.via = "generated" /\ ~serverCid) =>
          /\ UserId.ret = firstResolution.cid
          /\ UserId.via = "cookie"
          /\ \A s \in CallSlots :
                calls[s].pc # "idle" /\ calls[s].pc # "done"
                    => calls[s].cid = firstResolution.cid

\* the first resolution generated an id with the fallback off, the page has
\* cleared its cookies since, and a later call sends the same id
C2_Witness ==
    /\ firstResolution.via = "generated"
    /\ ~serverCid
    /\ ~fingerprintEnabled
    /\ documentCookie[CID_COOKIE_NAME] = Null
    /\ \E s \in CallSlots :
          /\ calls[s].pc = "fetch"
          /\ calls[s].via = "cookie"
          /\ calls[s].headers.xcid = firstResolution.cid

\* C3: while a non-empty cid is held (in the cookie cache, else in
\* document.cookie), getUserId returns it, and neither takes the
\* fingerprint path nor generates or writes anything, whether or not the
\* fingerprint fallback is on and loaded.
C3_CookieFirst ==
    Truthy(CidHeld) =>
        /\ UserId.ret = CidHeld
        /\ UserId.via = "cookie"
        /\ UserId.gen = genCount
        /\ UserId.doc = documentCookie

\* the fingerprint agent is loaded and the fallback on, and a call has just
\* resolved its identity from the cid held
C3_Witness ==
    /\ fingerprintEnabled
    /\ IsAvailable(fpAgent)
    /\ Truthy(CidHeld)
    /\ \E s \in CallSlots :
          /\ calls[s].pc = "await_uid"
          /\ calls[s].via = "cookie"
          /\ calls[s].cid = CidHeld

\* C4, as the specification states it: a call that takes the fingerprint
\* path holds "fp_" followed by the fingerprint's visitor id.
C4_FingerprintPrefix ==
    \A s \in CallSlots :
        calls[s].via = "fingerprint" => calls[s].cid = "fp_" \o VisitorId

\* C5: when a sendEvent call is fulfilled by a response whose cid (aid) is
\* non-empty and differs from the one the call sent, the cid (aid) cookie
\* holds the response's value once the response has been handled, in the
\* cache and in document.cookie, and getUserId returns the new cid.
C5_ResponseOverwrites ==
    (lastEvent.op = "sendEvent" /\ lastEvent.result = "fulfilled") =>
        /\ (Truthy(lastEvent.resp.cid) /\ lastEvent.resp.cid # lastEvent.cid) =>
              /\ documentCookie[CID_COOKIE_NAME] = lastEvent.resp.cid
              /\ cookieCache[CID_COOKIE_NAME] = lastEvent.resp.cid
              /\ UserId.ret = lastEvent.resp.cid
        /\ (Truthy(lastEvent.resp.aid) /\ lastEvent.resp.aid # lastEvent.aid) =>
              /\ documentCookie[AID_COOKIE_NAME] = lastEvent.resp.aid
              /\ GetCookie(cookieCache, documentCookie, AID_COOKIE_NAME)
                    = lastEvent.resp.aid

\* a sendEvent call has been fulfilled by a response with another cid and
\* another aid than it sent
C5_Witness ==
    /\ lastEvent.op = "sendEvent"
    /\ lastEvent.result = "fulfilled"
    /\ Truthy(lastEvent.resp.cid) /\ lastEvent.resp.cid # lastEvent.cid
    /\ Truthy(lastEvent.cid)
    /\ Truthy(lastEvent.resp.aid) /\ lastEvent.resp.aid # lastEvent.aid

\* C6, as the specification states it: sendEvent with an empty, missing or
\* non-string name fails with a validation error and sends no request, in
\* every state.
C6_AlwaysValidationError ==
    (lastEvent.op = "sendEvent" /\ lastEvent.arg \in {"", Undefined, NumberValue}) =>
        lastEvent.result = "ValidationError" /\ ~lastEvent.requested

\* C6, as the code has it: sendEvent with an empty, missing or non-string
\* name fails and sends no request in every state; the failure is the
\* validation error once BASE_URL is set and the configuration error before.
C6_BadNameFails ==
    (lastEvent.op = "sendEvent" /\ lastEvent.arg \in {"", Undefined, NumberValue}) =>
        /\ ~lastEvent.requested
        /\ lastEvent.result = IF NotInitialized(BASE_URL)
                              THEN "ConfigurationError" ELSE "ValidationError"

\* sendEvent(42) has just failed with the validation error
C6_Witness ==
    /\ lastEvent.op = "sendEvent"
    /\ lastEvent.arg = NumberValue
    /\ lastEvent.result = "ValidationError"

\* C7: until an init() call has got past its options check, every call of
\* sendEvent, getEvents, getEvent and personalize fails with the
\* configuration error, no call is under way or has sent a request, and
\* the cookie cache, the cookies and the id generator are as the page load
\* left them (but for the page clearing its cookies).
C7_BeforeInit ==
    ~initAccepted =>
        /\ \A s \in CallSlots : calls[s].pc = "idle"
        /\ lastEvent.op \in ApiOps =>
              lastEvent.result = "ConfigurationError" /\ ~lastEvent.requested
        /\ cookieCache = [n \in CookieNames |-> NotCached]
        /\ genCount = 0
        /\ VISIT_ID = Undefined
        /\ firstResolution = NoResolution
        /\ documentCookie \in InitialCookies \cup {[n \in CookieNames |-> Null]}

\* personalize() has just failed before any init()
C7_Witness ==
    /\ ~initAccepted
    /\ lastEvent.op = "personalize"
    /\ lastEvent.result = "ConfigurationError"

\* C8: a sendEvent call whose response body parses fails with the server
\* error exactly when the body's ok is the boolean false; with ok absent,
\* true or any other value the call does not fail.
C8_OkFalseRejects ==
    (lastEvent.op = "sendEvent" /\ lastEvent.requested
        /\ lastEvent.resp.kind \in {"json", "nullbody"}) =>
        IF lastEvent.resp.kind = "json" /\ lastEvent.resp.ok = FalseValue
        THEN lastEvent.result = "ServerError"
        ELSE lastEvent.result = "fulfilled"

\* a sendEvent call has just been rejected for a body with ok: false that
\* came with a success status
C8_Witness ==
    /\ lastEvent.op = "sendEvent"
    /\ lastEvent.resp.kind = "json"
    /\ lastEvent.resp.httpOk
    /\ lastEvent.resp.ok = FalseValue
    /\ lastEvent.result = "ServerError"

\* C9, as the specification states it: a sendEvent call whose request does
\* not get through or is answered with a non-success HTTP status fails.
C9_TransportFailureRejects ==
    (lastEvent.op = "sendEvent" /\ lastEvent.requested
        /\ (lastEvent.resp.kind = "neterr" \/ ~lastEvent.resp.httpOk)) =>
        lastEvent.result # "fulfilled"

\* C10: in an initialised tracker, a getEvents call with a missing or
\* empty name fails with the validation error in the step that makes it:
\* it sends no request, no call is left under way, and the cookie cache,
\* the cookies and the id generator are untouched.
C10_GetEventsNeedsName ==
    [][(lastEvent'.op = "getEvents" /\ lastEvent'.arg \in {"", Undefined}
            /\ ~NotInitialized(BASE_URL)) =>
          /\ lastEvent'.result = "ValidationError"
          /\ ~lastEvent'.requested
          /\ UNCHANGED <<identityVars, calls, firstResolution>>]_vars

\* getEvents() without a name has just failed in a tracker whose init() is
\* under way, and no identity has been looked up or generated yet
C10_Witness ==
    /\ lastEvent.op = "getEvents"
    /\ lastEvent.arg = Undefined
    /\ lastEvent.result = "ValidationError"
    /\ cookieCache[CID_COOKIE_NAME] = NotCached
    /\ genCount = 0

\* C11: whatever init() calls (overlapping ones included) and
\* stopPassiveHeartbeat calls have run, at most one heartbeat timer is live,
\* and it is the one _heartbeatInterval holds; so two timer callbacks are
\* never less than intervalMs apart.
C11_OneLiveTimer ==
    /\ Cardinality(timers) <= 1
    /\ timers \subseteq {heartbeatInterval}
    /\ tickEvent.ran => \A p \in tickEvent.prev : tickEvent.at - p >= IntervalMs

\* a timer callback runs more than intervalMs after the one before it: the
\* heartbeat has been started again in between, and one timer is live
C11_Witness ==
    /\ tickEvent.ran
    /\ \E p \in tickEvent.prev : tickEvent.at - p > IntervalMs
    /\ Cardinality(timers) = 1

\* C12, as the specification states it: a timer callback sends no
\* heartbeat when some sendEvent call (a heartbeat or any other) completed
\* successfully less than intervalMs - epsilon before it.
C12_QuietAfterEvent ==
    (tickEvent.ran /\ tickEvent.sent) =>
        \A c \in tickEvent.quiet : tickEvent.at - c >= IntervalMs - Epsilon

\* C13, as the specification states it: at most one heartbeat sendEvent
\* is under way at any time.
C13_OneHeartbeatInFlight ==
    inflight.heartbeat <= 1

(***************************************************************************)
(* Personalization of the document                                         *)
(***************************************************************************)
Bound(el) == el.attr \in ALL_PERSONALIZATION_ATTRIBUTES

SameContent(a, b) ==
    a.textContent = b.textContent /\ a.src = b.src /\ a.href = b.href

\* C14: after a pass of _applyPersonalization every element that carries a
\* binding attribute has the flag "true", whether or not its key is in the
\* object, and no step takes the flag "true" away from an element.
C14_FlaggedAfterPass ==
    /\ pzEvent.maps # <<>> =>
           \A e \in Elements : Bound(dom[e]) => dom[e].flag = "true"
    /\ \A e \in Elements : pzEvent.before[e].flag = "true" => dom[e].flag = "true"

\* a pass on {k1: "Hello"} has written the text of an element bound to k1
\* and has flagged an element bound to k2, which it left as it was
C14_Witness ==
    /\ pzEvent.maps = <<[k \in Keys |-> IF k = "k1" THEN Scalar("Hello") ELSE Absent]>>
    /\ \E e, f \in Elements :
          /\ dom[e].attr = PERSONALIZATION_ATTRIBUTE_COPY /\ dom[e].key = "k1"
          /\ dom[e].textContent = "Hello" /\ dom[e].flag = "true"
          /\ dom[f].attr = PERSONALIZATION_ATTRIBUTE_COPY /\ dom[f].key = "k2"
          /\ pzEvent.before[f].flag = Null /\ dom[f].flag = "true"
          /\ SameContent(dom[f], pzEvent.before[f])

\* what one pass on map is to leave in an element that was old: the mapped
\* value in the property of the binding, nothing for a key not in the object
ExpectedElement(old, map) ==
    LET v == map[old.key]
    IN  IF ~Bound(old) \/ old.key \notin Keys THEN old
        ELSE IF v = Absent THEN old
        ELSE CASE old.attr = PERSONALIZATION_ATTRIBUTE_COPY ->
                      [old EXCEPT !.textContent = StringOf(v)]
               [] old.attr = PERSONALIZATION_ATTRIBUTE_SRC ->
                      [old EXCEPT !.src = StringOf(v)]
               [] old.attr = PERSONALIZATION_ATTRIBUTE_HREF ->
                      [old EXCEPT !.href = StringOf(v)]
               [] OTHER ->
                      [old EXCEPT
                          !.textContent = IF v.copy # Undefined THEN v.copy ELSE @,
                          !.src = IF v.src # Undefined THEN v.src ELSE @,
                          !.href = IF v.href # Undefined THEN v.href ELSE @]

\* C15: a pass of _applyPersonalization writes, for every bound element
\* whose key is in the object, the mapped value onto the property of the
\* binding, empty and other falsy values included, and writes nothing onto
\* an element whose key is not in the object.
C15_WritesEveryMappedValue ==
    Len(pzEvent.maps) = 1 =>
        \A e \in Elements :
            SameContent(dom[e], ExpectedElement(pzEvent.before[e], pzEvent.maps[1]))

\* the same for the mapped values that are truthy
C15_WritesTruthyValues ==
    (Len(pzEvent.maps) = 1 /\ \A k \in Keys : pzEvent.maps[1][k] = Absent
                                    \/ TruthyValue(pzEvent.maps[1][k])) =>
        \A e \in Elements :
            SameContent(dom[e], ExpectedElement(pzEvent.before[e], pzEvent.maps[1]))

\* the answers with which the request of personalize() fails
FailedAnswer(r) ==
    r.kind = "neterr" \/ (r.kind # "-" /\ ~r.httpOk) \/ r.kind = "badjson"

\* C16: when the request of personalize() fails (no answer, a status that
\* is not a success, a body that does not parse), the call rejects with the
\* error, and at that moment every element with a binding attribute has the
\* flag "true" and no element has a content property other than before.
C16_FailOpen ==
    (pzEvent.op = "personalize" /\ FailedAnswer(pzEvent.resp)) =>
        /\ pzEvent.result \in {"NetworkError", "ServerError", "SyntaxError"}
        /\ \A e \in Elements :
              /\ Bound(dom[e]) => dom[e].flag = "true"
              /\ SameContent(dom[e], pzEvent.before[e])

\* a failed call has flagged an element that was not flagged
C16_Witness ==
    /\ pzEvent.op = "personalize" /\ FailedAnswer(pzEvent.resp)
    /\ pzEvent.result = "ServerError"
    /\ \E e \in Elements :
          Bound(dom[e]) /\ pzEvent.before[e].flag = Null /\ dom[e].flag = "true"

\* the answers on which personalize() goes on to line 458
GoodAnswer(r) == r.kind = "json" /\ r.httpOk

\* C17 as stated: with a callback and a successful request, the callback
\* is called once with the parsed answer and the document is left as it was.
C17_CallbackOwnsDom ==
    (pzEvent.op = "personalize" /\ pzEvent.callback # "none"
         /\ GoodAnswer(pzEvent.resp)) =>
        /\ pzEvent.callbacks = 1
        /\ pzEvent.raw = pzEvent.resp
        /\ dom = pzEvent.before

\* C17, amended: the same when the callback returns; a callback that throws
\* is called once too, and the catch block then flags the bound elements.
C17_ReturningCallbackOwnsDom ==
    /\ (pzEvent.op = "personalize" /\ pzEvent.callback = "returns"
            /\ GoodAnswer(pzEvent.resp)) =>
           /\ pzEvent.callbacks = 1
           /\ pzEvent.raw = pzEvent.resp
           /\ pzEvent.result = "fulfilled"
           /\ dom = pzEvent.before
    /\ (pzEvent.op = "personalize" /\ pzEvent.callback = "throws"
            /\ GoodAnswer(pzEvent.resp)) =>
           /\ pzEvent.callbacks = 1
           /\ pzEvent.raw = pzEvent.resp
           /\ pzEvent.result = "CallbackError"
           /\ dom = ClearPersonalizationFlags(pzEvent.before)

\* a returning callback got an answer with a personalization object for an
\* unflagged element bound to one of its keys, and the element is as before
C17_Witness ==
    /\ pzEvent.op = "personalize" /\ pzEvent.callback = "returns"
    /\ GoodAnswer(pzEvent.resp) /\ pzEvent.resp.has
    /\ pzEvent.callbacks = 1
    /\ ~docLoading
    /\ \E e \in Elements :
          /\ dom[e].attr = PERSONALIZATION_ATTRIBUTE_COPY /\ dom[e].key = "k1"
          /\ pzEvent.resp.map["k1"] = Scalar("Hello")
          /\ dom[e].flag = Null /\ dom[e].textContent = "old"


(***************************************************************************)
(* The payload of sendEvent                                                *)
(***************************************************************************)
\* C18: the value sent for sendEvent(name, data) is {value: data, visitId}
\* when data is absent, null, a scalar or a list (an absent data leaves an
\* absent value), and the fields of data with visitId when data is a plain
\* object; in both cases visitId is window.VISIT_ID, never data's own.
C18_PayloadShape ==
    pl.event # NoPayload =>
        /\ Truthy(VISIT_ID) /\ pl.event.body.visitId = VISIT_ID
        /\ pl.event.data.type \in {"null", "number", "string", "array"} =>
               pl.event.body.value = pl.event.data /\ pl.event.body.fields = {}
        /\ pl.event.data.type = "undefined" =>
               pl.event.body.value = NoData /\ pl.event.body.fields = {}
        /\ pl.event.data.type = "object" =>
               /\ pl.event.body.value = NoData
               /\ pl.event.body.fields = pl.event.data.fields

\* a plain object that brings a visitId of its own was sent
C18_Witness ==
    /\ pl.event.data = Data("object", {"x"}, "mine")
    /\ pl.event.body.fields = {"x"}
    /\ pl.event.body.visitId = VISIT_ID
    /\ VISIT_ID # "mine"

\* C19: all payloads sent carry the same visitId, which is window.VISIT_ID;
\* it is generated at most once, and not before it is needed; init() calls
\* and cid or aid values from the server do not change it.
C19_OneVisitId ==
    /\ pl.sent \subseteq {VISIT_ID}
    /\ pl.made <= 1
    /\ Truthy(VISIT_ID) <=> pl.made = 1
    /\ \A i \in 1..Len(pl.flight) : pl.flight[i].visitId = VISIT_ID
    /\ (pl.started = 0 /\ pl.flight = <<>> /\ pl.count = 0) => pl.made = 0

\* three payloads were sent with one visitId, around a second init() and a
\* cid from the server
C19_Witness ==
    /\ pl.count = MaxPayloads
    /\ pl.sent = {VISIT_ID}
    /\ pl.started = 2 /\ pl.begun = 0 /\ pl.armed = 0
    /\ serverCid
    /\ documentCookie[CID_COOKIE_NAME] = "c1"
    /\ documentCookie[AID_COOKIE_NAME] = "a1"


(***************************************************************************)
(* The request headers                                                     *)
(***************************************************************************)
\* C20: every request of sendEvent, getEvents, getEvent and personalize has
\* x-aid exactly when the aid cookie holds a value as the request is made,
\* and x-ip exactly when the IP-enforcement cookie is in document.cookie as
\* the request is made, also when that cookie was made after the tracker
\* first read it.
C20_HeadersFollowCookies ==
    [][\A s \in CallSlots :
          (calls[s].pc = "await_uid" /\ calls'[s].pc = "fetch") =>
              /\ calls'[s].headers.xaid # Undefined
                     <=> Truthy(documentCookie[AID_COOKIE_NAME])
              /\ calls'[s].headers.xip # Undefined
                     <=> Truthy(documentCookie[ENFORCE_IP_COOKIE_NAME])]_vars

\* the same for x-aid alone
C20_AidHeaderFollowsCookie ==
    [][\A s \in CallSlots :
          (calls[s].pc = "await_uid" /\ calls'[s].pc = "fetch") =>
              (calls'[s].headers.xaid # Undefined
                   <=> Truthy(documentCookie[AID_COOKIE_NAME]))]_vars


(***************************************************************************)
(* The queries                                                             *)
(***************************************************************************)
\* C21: getEvent returns the value's own value exactly when the body's
\* value is an object whose keys are value and visitId and no other, and
\* returns the body as it is in every other case; a callback is called once
\* with what is returned, and not at all when the request fails.
C21_UnwrapsExactShape ==
    (q.pc = "idle" /\ q.op = "getEvent" /\ q.resp # NoAnswer) =>
        LET r == q.resp
            failed == r.kind \in {"neterr", "badjson"} \/ ~r.httpOk
            exact == r.kind = "json" /\ r.vtype = "object"
                         /\ r.keys = {"value", "visitId"}
            expected == IF exact
                        THEN [whole |-> FALSE, inner |-> r.inner, body |-> NoAnswer]
                        ELSE [whole |-> TRUE, inner |-> Undefined, body |-> r]
        IN  IF failed
            THEN q.callbacks = 0 /\ q.ret = {} /\ q.result # "fulfilled"
            ELSE /\ q.callback = "none" => q.callbacks = 0 /\ q.ret = {expected}
                 /\ q.callback # "none" => q.callbacks = 1 /\ q.carg = {expected}
                 /\ q.callback = "returns" => q.ret = {expected}

\* a body whose value is {value: "v", visitId} came back and "v" was
\* handed to the callback and returned
C21_Witness ==
    /\ q.pc = "idle" /\ q.op = "getEvent" /\ q.callback = "returns"
    /\ q.resp.keys = {"value", "visitId"} /\ q.resp.httpOk
    /\ q.callbacks = 1
    /\ q.carg = {[whole |-> FALSE, inner |-> "v", body |-> NoAnswer]}
    /\ q.ret = q.carg

\* C22: the query of getEvents has name, limit and offset, limit and offset
\* being 11 and 0 when left out, and has a filter parameter exactly when
\* the filter has at least one key.
C22_FilterWhenNonEmpty ==
    (q.op = "getEvents" /\ q.sent # {}) =>
        \A p \in q.sent, a \in q.args :
            /\ p.name = a.name
            /\ a.limit = Undefined => p.limit = "11"
            /\ a.offset = Undefined => p.offset = "0"
            /\ p.filter # {} <=> a.filter # {}

\* the same for the filters that have no key or more than one
C22_FilterWhenSeveralKeys ==
    (q.op = "getEvents" /\ q.sent # {}) =>
        \A p \in q.sent, a \in q.args :
            /\ p.name = a.name
            /\ a.limit = Undefined => p.limit = "11"
            /\ a.offset = Undefined => p.offset = "0"
            /\ Cardinality(a.filter) # 1 => (p.filter # {} <=> a.filter # {})
            /\ \A f \in p.filter : f.json = a.filter


(***************************************************************************)
(* init() called again                                                     *)
(***************************************************************************)
\* an init() call of the page load has caught the failure of
\* initFingerprint(): its catch block, lines 109-115, has run
FingerprintFailed ==
    re.fpFailed
    \/ \E i \in InitSlots : inits[i].fp = "fail" /\ inits[i].pc # "await_fp"

\* C23: an init() call that sees the fingerprint initialization fail is
\* fulfilled all the same, and once it has caught the failure no call
\* resolves its identity through the fingerprint, also not after later
\* init() calls.
C23_CookieOnlyAfterFailure ==
    [][/\ \A i \in InitSlots :
             (inits'[i].pc = "done" /\ inits'[i].fp = "fail") =>
                 inits'[i].result = "fulfilled"
       /\ FingerprintFailed =>
             \A s \in CallSlots :
                 (calls[s].pc = "idle" /\ calls'[s].pc = "await_uid") =>
                     calls'[s].via # "fingerprint"]_vars

\* after a failure, a later init() has the fingerprint agent loaded and the
\* flag on, the page has removed the cid cookie, and a call has resolved
\* its identity from the cookie
C23_Witness ==
    /\ re.fpFailed
    /\ fingerprintEnabled /\ fpAgent # Null
    /\ documentCookie[CID_COOKIE_NAME] = Null
    /\ \E s \in CallSlots : calls[s].pc = "await_uid" /\ calls[s].via = "cookie"

\* C24: init() may be called again: once some init() call has armed the
\* instrumentation, on a browser with the History API every pushState,
\* replaceState and popstate navigation sends exactly one page_visit,
\* however many init() calls have run, and the document holds each tracking
\* listener once (the touch listeners on a touch device only)
C24_ArmedOnce ==
    tr.setups >= 1 =>
        /\ tr.nav.kind # "-" => tr.nav.visits = 1
        /\ tr.history => tr.pushState = 1 /\ tr.replaceState = 1 /\ tr.popstate = 1
        /\ tr.docClick = 1
        /\ tr.touchPair = (IF tr.touch THEN 1 ELSE 0)
        /\ tr.submit = 1
        /\ tr.formClick = 1
        /\ tr.focusout = 1
        /\ tr.loaded <= 1

\* a navigation after init() has armed the instrumentation more than once
C24_Witness ==
    /\ tr.setups >= 2
    /\ tr.nav.kind = "pushState"
    /\ tr.nav.visits = 1
    /\ tr.touch

\* C25, as the specification states it: once an init() call has returned
\* with the fingerprint fallback on and its agent loaded, a sendEvent call
\* made while the cid cookie is gone from document.cookie resolves its
\* identity, the x-cid header it will send, through the fingerprint.
C25_FingerprintAfterCookieRemoved ==
    [][(/\ re.returned >= 1
        /\ fingerprintEnabled
        /\ IsAvailable(fpAgent)
        /\ documentCookie[CID_COOKIE_NAME] = Null)
       => \A s \in CallSlots :
              (/\ calls[s].pc = "idle"
               /\ calls'[s].pc = "await_uid"
               /\ calls'[s].op = "sendEvent")
              => calls'[s].via = "fingerprint"]_vars

\* C26, as the specification states it: with several sendEvent and
\* personalize calls in flight, once a call has been fulfilled by a
\* response that carries a cid (an aid), the cid (aid) held is that of the
\* response.
C26_LastResponseHeld ==
    (lastEvent.op \in {"sendEvent", "personalize"} /\ lastEvent.result = "fulfilled") =>
        /\ Truthy(lastEvent.resp.cid) =>
              GetCookie(cookieCache, documentCookie, CID_COOKIE_NAME)
                  = lastEvent.resp.cid
        /\ Truthy(lastEvent.resp.aid) =>
              GetCookie(cookieCache, documentCookie, AID_COOKIE_NAME)
                  = lastEvent.resp.aid

\* a sendEvent call has settled in this step, and failed
SendEventFailed ==
    lastEvent'.op = "sendEvent" /\ lastEvent'.result # "fulfilled"

\* an init() call has run its last stretch, lines 137-140, in this step
InitEnded == \E i \in InitSlots : inits[i].pc = "await_start" /\ inits'[i].pc = "done"

\* C27, as the specification states it: _lastEventTimestamp changes only
\* in a step in which a sendEvent call is fulfilled.
C27_StampOnlyOnSuccess ==
    [][lastEventTimestamp' # lastEventTimestamp =>
          (lastEvent'.op = "sendEvent" /\ lastEvent'.result = "fulfilled")]_vars

\* C27, as the code has it: _lastEventTimestamp changes only in a step in
\* which a sendEvent call is fulfilled or an init() call runs its end; the
\* step in which a sendEvent call fails (bad name, no init(), no answer, an
\* answer that does not parse, ok: false) changes neither the timestamp nor
\* the cid and aid cookies, in the cache and in document.cookie, whatever
\* cid and aid the answer carries.
C27_FailureChangesNothing ==
    [][/\ lastEventTimestamp' # lastEventTimestamp =>
             \/ lastEvent'.op = "sendEvent" /\ lastEvent'.result = "fulfilled"
             \/ InitEnded
       /\ SendEventFailed =>
             /\ lastEventTimestamp' = lastEventTimestamp
             /\ cookieCache' = cookieCache
             /\ documentCookie' = documentCookie]_vars

\* a sendEvent call has failed on an answer with ok: false that carries
\* another cid and another aid than the ones held, some time after the
\* last successful event
C27_Witness ==
    /\ lastEvent.op = "sendEvent"
    /\ lastEvent.result = "ServerError"
    /\ Truthy(lastEvent.resp.cid)
    /\ lastEvent.resp.cid # GetCookie(cookieCache, documentCookie, CID_COOKIE_NAME)
    /\ Truthy(lastEvent.resp.aid)
    /\ lastEvent.resp.aid # GetCookie(cookieCache, documentCookie, AID_COOKIE_NAME)
    /\ lastEventTimestamp < now

\* C28, as the specification states it: while an init() call is under way,
\* between its stop of the heartbeat and its start of the heartbeat, no
\* timer callback sends a heartbeat.
C28_QuietDuringInit ==
    hbInits.stopped + hbInits.armed > 0 => ~tickEvent.sent

\* C28, as the code has it: init() stops the heartbeat in its first
\* stretch, with the change of the configuration; and from a stop, by
\* init() or by the page, to the next start, by that init() call or by one
\* that is under way with it, no timer is live, no timer callback runs and
\* the re-entrancy guard is clear.
C28_QuietUntilRestart ==
    [][/\ hbInits'.stopped > hbInits.stopped => heartbeatInterval' = NoTimer
       /\ heartbeatInterval' = NoTimer =>
             /\ timers' = {}
             /\ ~isHeartbeatRunning'
             /\ ~tickEvent'.ran]_vars

\* a timer callback has run, init() has been called again and has stopped
\* the heartbeat, and more than an interval has passed since with the init()
\* call still under way
C28_Witness ==
    /\ hbInits.stopped > 0
    /\ heartbeatInterval = NoTimer
    /\ \E t \in prevTick : now > t + IntervalMs
    /\ inflight.heartbeat > 0

\* C29: on a Next.js page the k-th heartbeat of a timer is not sent before
\* the clock shows the timer's start time plus k intervals less the
\* tolerance, and a callback of the timer sends at most one heartbeat, also
\* the callback that runs after the page was suspended for several
\* intervals.
C29_NoEarlyNoBurst ==
    /\ tickEvent.sent =>
          tickEvent.at + Tolerance >= dt.start + dt.count * IntervalMs
    /\ dt.sends <= 1

\* the page was suspended, and the callback that ran on resume has sent a
\* heartbeat more than an interval after the slot of that heartbeat
C29_Witness ==
    /\ dt.suspended
    /\ tickEvent.sent
    /\ dt.sends = 1
    /\ tickEvent.at >= dt.start + (dt.count + 1) * IntervalMs

\* a personalize() call without a callback has been fulfilled in this step
\* by an answer with a personalization object
MapArrived ==
    /\ pzEvent'.op = "personalize"
    /\ pzEvent'.callback = "none"
    /\ pzEvent'.result = "fulfilled"
    /\ pzEvent'.resp.has

\* DOMContentLoaded has fired in this step
LoadCompleted == docLoading /\ ~docLoading'

\* C30: when personalize() without a callback is answered with a
\* personalization object, the object is applied in that step if the
\* document is no longer loading; if it is loading the document is left as
\* it is and the object is applied, once, in the step in which
\* DOMContentLoaded fires: it waits in one listener until then, the
\* listeners run in that step, and none is left or added afterwards.
C30_AppliedOnceWhenLoaded ==
    [][/\ (MapArrived /\ ~docLoading) =>
             /\ dom' = ApplyPersonalization(dom, pzEvent'.resp.map)
             /\ listeners' = listeners
       /\ (MapArrived /\ docLoading) =>
             /\ dom' = dom
             /\ listeners' = Append(listeners, pzEvent'.resp.map)
       /\ LoadCompleted =>
             /\ dom' = ApplyAll(dom, listeners)
             /\ listeners' = <<>>
       /\ (~MapArrived /\ ~LoadCompleted) => listeners' = listeners
       /\ ~docLoading => (~docLoading' /\ listeners = <<>>)]_vars

\* DOMContentLoaded has fired and an object that had arrived while the
\* document was loading has changed an element
C30_Witness ==
    /\ pzEvent.op = "DOMContentLoaded"
    /\ Len(pzEvent.maps) >= 1
    /\ \E e \in Elements :
          /\ pzEvent.before[e].flag = Null /\ pzEvent.before[e].textContent = "old"
          /\ dom[e].flag = "true" /\ dom[e].textContent = "Hello"

(***************************************************************************)
(* personalize() and the identity                                          *)
(***************************************************************************)
\* C31: when personalize() has been answered with a success status and a
\* body that carries a cid, an aid or both, the cid held is the answer's
\* cid and the aid held the answer's aid, and getUserId returns that cid,
\* with a callback and without; the cookies are written before the
\* callback is called, so also when the callback throws.
C31_PersonalizeIdentity ==
    (lastEvent.op = "personalize" /\ PersonalizeResult(lastEvent.resp) = "fulfilled") =>
        /\ Truthy(lastEvent.resp.cid) =>
              /\ GetCookie(cookieCache, documentCookie, CID_COOKIE_NAME)
                    = lastEvent.resp.cid
              /\ documentCookie[CID_COOKIE_NAME] = lastEvent.resp.cid
              /\ UserId.ret = lastEvent.resp.cid
        /\ Truthy(lastEvent.resp.aid) =>
              /\ GetCookie(cookieCache, documentCookie, AID_COOKIE_NAME)
                    = lastEvent.resp.aid
              /\ documentCookie[AID_COOKIE_NAME] = lastEvent.resp.aid

\* a personalize() call whose callback throws has been answered with
\* another cid and another aid than it sent, while a sendEvent call is
\* under way
C31_Witness ==
    /\ lastEvent.op = "personalize"
    /\ lastEvent.arg = "throws"
    /\ lastEvent.result = "CallbackError"
    /\ Truthy(lastEvent.resp.cid) /\ lastEvent.resp.cid # lastEvent.cid
    /\ Truthy(lastEvent.resp.aid) /\ lastEvent.resp.aid # lastEvent.aid
    /\ \E s \in CallSlots : calls[s].op = "sendEvent" /\ calls[s].pc = "fetch"

(***************************************************************************)
(* The order of init()                                                     *)
(***************************************************************************)
\* C32: init() ensures the cid cookie, then arms the instrumentation, then
\* starts the heartbeat: an init() call past line 123 finds a cid held, the
\* page_visit the first setupRouteTracking sends (it sends one whenever the
\* url given to init() left BASE_URL non-empty) resolves its identity from
\* the cookie and carries the cid held, and while a heartbeat timer is live
\* a cid is held and the route tracking is armed.
C32_CidThenTrackersThenHeartbeat ==
    [][/\ \A i \in InitSlots :
             inits'[i].pc \in {"await_setup", "await_start", "done"} =>
                 Truthy(GetCookie(cookieCache', documentCookie', CID_COOKIE_NAME))
       /\ \A i \in InitSlots :
             (/\ inits[i].pc = "await_setup"
              /\ inits'[i].pc = "await_start"
              /\ ~routeInitialized) =>
                 /\ ~NotInitialized(BASE_URL) =>
                        \E s \in CallSlots :
                            calls[s].pc = "idle" /\ calls'[s].pc = "await_uid"
                 /\ \A s \in CallSlots :
                        (calls[s].pc = "idle" /\ calls'[s].pc = "await_uid") =>
                            /\ calls'[s].op = "sendEvent"
                            /\ calls'[s].via = "cookie"
                            /\ calls'[s].cid = CidHeld
       /\ timers' # {} =>
             /\ routeInitialized'
             /\ Truthy(GetCookie(cookieCache', documentCookie', CID_COOKIE_NAME))]_vars

\* init() has made the cid on a page without one and has armed the route
\* tracking, whose page_visit carries that cid; the heartbeat is yet to start
C32_Witness ==
    /\ \E i \in InitSlots : inits[i].pc = "await_start"
    /\ firstResolution.via = "generated"
    /\ timers = {}
    /\ \E s \in CallSlots :
          /\ calls[s].pc = "await_uid"
          /\ calls[s].via = "cookie"
          /\ calls[s].cid = firstResolution.cid
          /\ calls[s].cid = CidHeld

\* C33: whatever getCookie, setCookie and deleteCookie calls were made on
\* whatever names, and whatever the visitor did to the jar, a getCookie(name)
\* returns the value the last setCookie(name, value) that returned was given,
\* also when another value was cached for the name before that write.
C33_ReadsLastWrite ==
    (ck.op = "getCookie" /\ ck.written[ck.name] # NotWritten) =>
        ck.result = ck.written[ck.name]

\* a getCookie returns the value written over another one that was cached,
\* after the jar has lost the cookie
C33_Witness ==
    /\ ck.op = "getCookie"
    /\ ck.written[ck.name] = "v2"
    /\ ck.replaced[ck.name]
    /\ ck.result = "v2"
    /\ documentCookie[ck.name] = Null

\* the ids generateId() has handed out as a cid: all but the visit id
CidsGenerated == genCount - (IF Truthy(VISIT_ID) THEN 1 ELSE 0)

\* the calls under way that took their cid from the cookie or generated it
CookieCalls ==
    {s \in CallSlots : /\ calls[s].pc \in {"await_uid", "fetch"}
                       /\ calls[s].via \in {"cookie", "generated"}}

\* C34: however many sendEvent, getEvents, getEvent and personalize calls
\* are started while others are still under way, at most one fresh id is
\* generated as a cid during the page load, the call that generated it finds
\* it persisted, and until a response brings a cid of the collector's all
\* the calls under way that did not use the fingerprint carry the same cid.
C34_OneFreshId ==
    /\ CidsGenerated <= 1
    /\ \A s \in CallSlots :
          (calls[s].pc \in {"await_uid", "fetch"} /\ calls[s].via = "generated") =>
              /\ \A t \in CallSlots \ {s} : calls[t].via # "generated"
              /\ ~serverCid => CidHeld = calls[s].cid
    /\ ~serverCid =>
          \A s \in CookieCalls, t \in CookieCalls : calls[s].cid = calls[t].cid

\* two calls are under way at once on a page that had no cid and no
\* fingerprint: the first generated the cid and the second carries it
C34_Witness ==
    /\ fpAgent = Null
    /\ ~serverCid
    /\ CidsGenerated = 1
    /\ \E s \in CallSlots, t \in CallSlots :
          /\ calls[s].pc \in {"await_uid", "fetch"}
          /\ calls[t].pc \in {"await_uid", "fetch"}
          /\ calls[s].via = "generated"
          /\ calls[t].via = "cookie"
          /\ calls[t].cid = calls[s].cid

\* the elements that carry a binding attribute and have no ready flag
HiddenElements ==
    {e \in Elements : /\ dom[e].attr \in ALL_PERSONALIZATION_ATTRIBUTES
                      /\ dom[e].flag # "true"}

\* C35: once a personalize() called without a callback has settled, fulfilled
\* or rejected, on a document that has finished loading, or the loading has
\* ended and run what such calls deferred, no element that carries a binding
\* attribute is left without its ready flag.
C35_NoElementStaysHidden ==
    (/\ ~docLoading
     /\ \/ /\ pzEvent.op = "personalize"
           /\ pzEvent.callback = "none"
           /\ pzEvent.result # "-"
        \/ /\ pzEvent.op = "DOMContentLoaded"
           /\ pzEvent.maps # <<>>) =>
        HiddenElements = {}

\* C36: on a page that sends no other event, where every heartbeat succeeds
\* and takes less than the interval to do so, every run of the timer callback
\* calls sendEvent.
C36_HeartbeatOnEveryTick == tickEvent.ran => tickEvent.sent

\* the clock values a timer callback can run at
TickTimes == 0..(MaxTime + IntervalMs)

\* C37: when a heartbeat's sendEvent fails, the timer callback catches the
\* failure and logs it, the timer held and the times it is due at stay as
\* they are, the guard is released, and a later run of the callback decides
\* as it would have with the guard free and the timestamps as they were.
C37_FailureContained ==
    [][(/\ inflight'.heartbeat = inflight.heartbeat - 1
        /\ tickEvent'.settled # "sent") =>
           /\ tickEvent'.settled = "warned"
           /\ timers' = timers
           /\ heartbeatInterval' = heartbeatInterval
           /\ due' = due
           /\ ~isHeartbeatRunning'
           /\ \A t \in TickTimes :
                 TickSends(build, isHeartbeatRunning', t, lastEventTimestamp',
                           lastHeartbeatTimestamp')
                     = TickSends(build, FALSE, t, lastEventTimestamp,
                                 lastHeartbeatTimestamp)]_vars

\* a heartbeat of part_002 has just failed: the timer held is live, the
\* guard is released and no heartbeat is under way
C37_Witness ==
    /\ build = "part_002"
    /\ tickEvent.settled = "warned"
    /\ heartbeatInterval \in timers
    /\ ~isHeartbeatRunning
    /\ inflight.heartbeat = 0

\* what the last getEvent returned
Returned == CHOOSE v \in q.ret : TRUE

\* C38: when getEvent is answered with the value the collector stored for a
\* sendEvent(name, data), it returns data itself if data was absent, null, a
\* scalar or a list, and the stored value as a whole, data's fields with the
\* visitId, if data was a map, a map whose only field is named value
\* included.
C38_RoundTrip ==
    (/\ q.op = "getEvent" /\ q.pc = "idle" /\ q.result = "fulfilled"
     /\ rt.has
     /\ q.resp = StoredAnswer(rt.body)) =>
        IF IsWrapped(rt.data)
        THEN ~Returned.whole /\ Returned.inner = rt.data
        ELSE Returned.whole /\ Returned.body = StoredAnswer(rt.body)

\* C39: once an init() call has run to its end without raising, whatever
\* string its options.url was, no sendEvent, getEvents, getEvent or
\* personalize call fails with the error of a tracker that is not
\* initialised.
C39_InitialisedAfterInit ==
    (\E i \in InitSlots : inits[i].pc = "done" /\ inits[i].result = "fulfilled") =>
        ~(/\ lastEvent.op \in {"sendEvent", "getEvents", "getEvent", "personalize"}
          /\ lastEvent.result = "ConfigurationError")

==============================================================================
